---- MODULE Spec2Model ----
(***************************************************************************)
(* LostLove Protocol server: the session / connection plane.               *)
(*                                                                         *)
(*   ConnectionManager  src/server/src/core/connection.rs                  *)
(*   Session            src/server/src/core/session.rs                     *)
(*   Handshake          src/server/src/protocol/handshake.rs               *)
(*   Server tasks       src/server/src/core/server.rs                      *)
(*                                                                         *)
(* The module holds several specifications over one set of variables.      *)
(* Each specification exercises one component and leaves the variables of  *)
(* the others at their initial values:                                     *)
(*                                                                         *)
(*   Spec         ConnectionManager driven by one caller, every operation  *)
(*                completing before the next starts                        *)
(*   SpecTasks    connection tasks and the sweep task running concurrently *)
(*                on one ConnectionManager, one atomic step at a time      *)
(*   SpecSession  one Session shared by concurrent callers                 *)
(*   SpecHandshake  a client and a server Handshake exchanging messages    *)
(***************************************************************************)
EXTENDS Integers, Sequences, FiniteSets, TLC

VARIABLES
    now,        \* the monotonic clock read by Instant::now()
    manager,    \* the ConnectionManager: connections (the keys of the DashMap),
                \* max_connections, active_count, total_connections
    session,    \* the Session objects ever built, by session id (Arc-shared: a
                \* Session outlives its entry in the map)
    next_uuid,  \* how many uuids Uuid::new_v4() has handed out; the next is fresh
    trace,      \* the completed ConnectionManager calls with their results
    task,       \* the connection tasks: program counter and locals
    sweep,      \* the sweep task: program counter and locals of cleanup_stale
    removals,   \* per session id: who has called remove_connection on it, how
                \* often active_count was decremented for it, and whether a
                \* decrement found the counter at zero
    issued,     \* what the record_* calls made on the Session add up to
    hs,         \* the Handshake objects
    last_call,  \* the last Handshake method called, its argument and result
    sequence_number, \* the AtomicU64 of one Connection
    returned,   \* per task, the values next_sequence returned to it, in order
    sent,       \* the packets the server wrote on the connection, in order
    packet,     \* the Packet last built
    wire,       \* the bytes handed to Packet::deserialize
    decoded,    \* what Packet::deserialize returned for wire
    km,         \* the KeyManager
    history,    \* the SessionKeys that have been current, oldest first
    cipher,     \* a ciphertext in hand, with the keys, nonce and plaintext
                \* it was made from
    key_call,   \* the last KeyManager or HSEEncryptor call
    key_ret,    \* what that call returned
    ctask,      \* one connection task (handle_connection): where it is, its
                \* session id, the ServerHello it is about to send, its result
    tcp,        \* the TcpStream of that task: the client's unread bytes, what
                \* the client did to the socket, the packets the server wrote
    evlog,      \* what the task handed to Packet::deserialize last, and
                \* what came back
    workers,    \* the connection tasks spawned by Server::run: where each is,
                \* its session id, its shutdown receiver
    shutdown_tx, \* the broadcast channel of Server: how often shutdown() sent
    callers     \* the KeyManager calls in flight: where each caller is in
                \* rotate_keys or decrypt_with_fallback, and its locals

mgrVars == <<now, manager, session, next_uuid, trace>>
taskVars == <<task, sweep, removals>>
sessVars == <<issued>>
hsVars == <<hs, last_call>>
connVars == <<sequence_number, returned, sent>>
pktVars == <<packet, wire, decoded>>
keyVars == <<km, history, cipher, key_call, key_ret>>
srvVars == <<ctask, tcp, evlog>>
stopVars == <<workers, shutdown_tx>>
raceVars == <<callers>>
protoVars == <<connVars, pktVars, keyVars, srvVars, stopVars, raceVars>>
coreVars == <<mgrVars, taskVars, sessVars, hsVars, srvVars, stopVars, raceVars>>
vars == <<now, manager, session, next_uuid, trace, task, sweep, removals,
          issued, hs, last_call, sequence_number, returned, sent,
          packet, wire, decoded, km, history, cipher, key_call, key_ret,
          ctask, tcp, evlog, workers, shutdown_tx, callers>>

----------------------------------------------------------------------------
(* Bounds of the model *)

MaxCapacity == 2    \* max_connections ranges over 0..MaxCapacity
MaxSessions == 3    \* at most this many Session objects are ever built
MaxOps == 5         \* length of the call history of Spec
MaxTime == 2        \* the clock ranges over 0..MaxTime
MaxTimeout == 1     \* timeouts range over 0..MaxTimeout
NumTasks == 2       \* connection tasks of SpecTasks
NumCallers == 2     \* concurrent callers of one KeyManager

MaxRecords == 3     \* record_* calls made on the Session of SpecSession
MaxSize == 2        \* packet sizes range over 0..MaxSize

NumRandoms == 2     \* the values generate_random() can return
MaxVersion == 2     \* protocol_version ranges over 0..MaxVersion

Ids == 1..MaxSessions
Tasks == 1..NumTasks
Callers == 1..NumCallers

(* usize / u64 arithmetic of the atomics wraps around.  The width is 64 bits
   in the program; the model keeps the wrap-around with a smaller modulus,
   far above every count the bounds allow. *)
UsizeModulus == 2^16

----------------------------------------------------------------------------
(* Session (session.rs) *)

SessionStats_default ==
    [packets_sent |-> 0, packets_received |-> 0,
     bytes_sent |-> 0, bytes_received |-> 0, errors |-> 0]

\* Session::new: state Handshaking, zero stats, last_activity = Instant::now()
Session_new(t) ==
    [state |-> "Handshaking", stats |-> SessionStats_default, last_activity |-> t]

\* a set_state that closes the session whatever it is asked for
set_state_closed(s, new_state) == [s EXCEPT !.state = "Closed"]

\* Session::set_state: an unconditional store
set_state(s, new_state) == [s EXCEPT !.state = new_state]

\* Session::record_packet_sent / record_packet_received / record_error: one
\* section under the stats mutex each (u64 counters; the bounds of the model
\* keep them far from 2^64)
record_packet_sent(s, size) ==
    [s EXCEPT !.stats.packets_sent = @ + 1, !.stats.bytes_sent = @ + size]

record_packet_received(s, size) ==
    [s EXCEPT !.stats.packets_received = @ + 1, !.stats.bytes_received = @ + size]

\* a record_error that also counts the packet as received
record_error_counted(s) ==
    [s EXCEPT !.stats.errors = @ + 1, !.stats.packets_received = @ + 1]

record_error(s) == [s EXCEPT !.stats.errors = @ + 1]

\* Session::time_since_activity: last_activity.elapsed()
time_since_activity(s, t) == t - s.last_activity

should_timeout_ge(s, t, timeout_duration) ==
    time_since_activity(s, t) >= timeout_duration

\* Session::should_timeout
should_timeout(s, t, timeout_duration) ==
    time_since_activity(s, t) > timeout_duration

----------------------------------------------------------------------------
(* ConnectionManager (connection.rs) *)

\* AtomicUsize::fetch_add / fetch_sub: wrapping
fetch_add_none(x, n) == x

fetch_add(x, n) == (x + n) % UsizeModulus

fetch_sub(x, n) == (x - n) % UsizeModulus

\* ConnectionManager::new
ConnectionManager_new(max) ==
    [connections |-> {}, max_connections |-> max,
     active_count |-> 0, total_connections |-> 0]

CapacityReached_gt(m, current) == current > m.max_connections

\* create_connection, line 82: current >= self.max_connections
CapacityReached(m, current) == current >= m.max_connections

\* DashMap::insert / remove / contains on the key set
MapInsert(map, id) == map \cup {id}

\* a remove that leaves the key in place
MapRemove_keep(map, id) == map

MapRemove(map, id) == map \ {id}

RemoveHit_always(map, id) == TRUE

\* remove_connection, lines 117-119: result.is_some()
RemoveHit(map, id) == id \in map

\* create_connection past the capacity check, lines 90-97
create_insert(m, id) ==
    [m EXCEPT !.connections = MapInsert(@, id),
              !.active_count = fetch_add(@, 1),
              !.total_connections = fetch_add(@, 1)]

\* remove_connection, lines 114-129
remove_connection(m, id) ==
    IF RemoveHit(m.connections, id)
    THEN [m EXCEPT !.connections = MapRemove(@, id),
                   !.active_count = fetch_sub(@, 1)]
    ELSE m

\* cleanup_stale, lines 145-152: the ids collected into to_remove
StaleIds(m, sess, t, timeout) ==
    {id \in m.connections : should_timeout(sess[id], t, timeout)}

\* cleanup_stale, lines 154-156: remove_connection on each collected id
RECURSIVE RemoveEach(_, _)
RemoveEach(m, ids) ==
    IF ids = {} THEN m
    ELSE LET id == CHOOSE x \in ids : TRUE
         IN RemoveEach(remove_connection(m, id), ids \ {id})

cleanup_stale(m, sess, t, timeout) == RemoveEach(m, StaleIds(m, sess, t, timeout))

----------------------------------------------------------------------------
(* Spec: one caller, operations complete one after another *)

Call(op, arg, ret) == [op |-> op, arg |-> arg, ret |-> ret]

TaskIdle == [pc |-> "start", sid |-> 0, sample |-> 0]
SweepIdle == [pc |-> "idle", timeout |-> 0, snapshot |-> {}, seen |-> {},
              to_remove |-> <<>>]

NoRemovals == [id \in Ids |-> [by |-> {}, decs |-> 0, below_zero |-> FALSE]]

TasksAtRest ==
    /\ task = [i \in Tasks |-> TaskIdle]
    /\ sweep = SweepIdle
    /\ removals = NoRemovals

SessionAtRest == issued = SessionStats_default

HandshakeAtRest ==
    /\ hs = <<>>
    /\ last_call = <<>>

ConnectionAtRest ==
    /\ sequence_number = 0
    /\ returned = [i \in Tasks |-> <<>>]
    /\ sent = <<>>

PacketAtRest ==
    /\ packet = <<>>
    /\ wire = <<>>
    /\ decoded = <<>>

\* no call made on the KeyManager yet
NoCall == [fn |-> "", args |-> <<>>, at |-> 0, gen |-> 0]

KeysAtRest ==
    /\ km = <<>>
    /\ history = <<>>
    /\ cipher = <<>>
    /\ key_call = NoCall
    /\ key_ret = <<>>

\* no connection accepted yet
ServerAtRest ==
    /\ ctask = [pc |-> "accept", sid |-> 0, handshake |-> {}, hello |-> {},
                result |-> {}]
    /\ tcp = [inbox |-> <<>>, peer |-> "open", out |-> <<>>, sends |-> 0,
              greeted |-> FALSE]
    /\ evlog = <<>>
    /\ workers = <<>>
    /\ shutdown_tx = 0

\* no KeyManager call in flight
CallerIdle == [pc |-> "idle", fn |-> "", rotated |-> {}, current |-> {},
               began |-> {}, overlapped |-> FALSE]

CallersAtRest == callers = [c \in Callers |-> CallerIdle]

ProtoAtRest ==
    ConnectionAtRest /\ PacketAtRest /\ KeysAtRest /\ ServerAtRest /\ CallersAtRest

Init ==
    /\ now = 0
    /\ manager \in {ConnectionManager_new(c) : c \in 0..MaxCapacity}
    /\ session = <<>>
    /\ next_uuid = 1
    /\ trace = <<>>
    /\ TasksAtRest
    /\ SessionAtRest
    /\ HandshakeAtRest
    /\ ProtoAtRest

\* ConnectionManager::create_connection
CreateConnection ==
    /\ Len(trace) < MaxOps
    /\ IF CapacityReached(manager, manager.active_count)
       THEN /\ trace' = Append(trace, Call("create_connection", 0, "TooManyConnections"))
            /\ UNCHANGED <<manager, session, next_uuid>>
       ELSE /\ next_uuid <= MaxSessions
            /\ session' = session @@ (next_uuid :> Session_new(now))
            /\ manager' = create_insert(manager, next_uuid)
            /\ next_uuid' = next_uuid + 1
            /\ trace' = Append(trace, Call("create_connection", next_uuid, "Ok"))
    /\ UNCHANGED <<now, taskVars, sessVars, hsVars, protoVars>>

\* ConnectionManager::remove_connection, on the id of any Session built so far
\* or on an id that was never registered (next_uuid)
RemoveConnection(id) ==
    /\ Len(trace) < MaxOps
    /\ id \in Ids
    /\ manager' = remove_connection(manager, id)
    /\ trace' = Append(trace, Call("remove_connection", id,
                       IF RemoveHit(manager.connections, id) THEN "Some" ELSE "None"))
    /\ UNCHANGED <<now, session, next_uuid, taskVars, sessVars, hsVars, protoVars>>

\* ConnectionManager::cleanup_stale
CleanupStale(timeout) ==
    /\ Len(trace) < MaxOps
    /\ manager' = cleanup_stale(manager, session, now, timeout)
    /\ trace' = Append(trace, Call("cleanup_stale", timeout, "Unit"))
    /\ UNCHANGED <<now, session, next_uuid, taskVars, sessVars, hsVars, protoVars>>

\* Connection::update_activity by the owner of a registered connection
UpdateActivity(id) ==
    /\ id \in manager.connections
    /\ session[id].last_activity < now
    /\ session' = [session EXCEPT ![id].last_activity = now]
    /\ UNCHANGED <<now, manager, next_uuid, trace, taskVars, sessVars, hsVars, protoVars>>

\* the monotonic clock advances
Tick ==
    /\ now < MaxTime
    /\ now' = now + 1
    /\ UNCHANGED <<manager, session, next_uuid, trace, taskVars, sessVars, hsVars, protoVars>>

Next ==
    \/ CreateConnection
    \/ \E id \in 1..next_uuid : RemoveConnection(id)
    \/ \E timeout \in 0..MaxTimeout : CleanupStale(timeout)
    \/ \E id \in Ids : UpdateActivity(id)
    \/ Tick

Spec == Init /\ [][Next]_vars

----------------------------------------------------------------------------
(* Properties of the ConnectionManager under Spec *)

LastCall == trace[Len(trace)]

\* the step completes a call of op (an action-level operator)
Completed(op) ==
    /\ Len(trace') = Len(trace) + 1
    /\ trace'[Len(trace')].op = op

CallsOf(op) == {i \in 1..Len(trace) : trace[i].op = op}

OkCreates == {i \in CallsOf("create_connection") : trace[i].ret = "Ok"}

\* C1: after any sequence of completed create_connection, remove_connection and
\* cleanup_stale calls on an empty manager, active_count is the number of
\* entries of the map and is at most max_connections.
C1_CountMatchesMap ==
    /\ manager.active_count = Cardinality(manager.connections)
    /\ manager.active_count <= manager.max_connections

\* all three operations have run, one entry left through remove_connection,
\* one through cleanup_stale, and a later create succeeded
C1_Witness ==
    /\ manager.connections = {3}
    /\ manager.total_connections = 3
    /\ Cardinality(CallsOf("remove_connection")) = 1
    /\ CallsOf("cleanup_stale") # {}

\* C3: at capacity (active_count = max_connections) every create_connection
\* returns TooManyConnections and leaves the map, active_count and
\* total_connections as they were.
C3_RejectsAtCapacity ==
    [][(Completed("create_connection")
          /\ manager.active_count = manager.max_connections)
        => /\ trace'[Len(trace')].ret = "TooManyConnections"
           /\ manager'.connections = manager.connections
           /\ manager'.active_count = manager.max_connections
           /\ manager'.total_connections = manager.total_connections]_vars

\* a manager filled by two successful creates has just rejected a third
C3_Witness ==
    /\ Len(trace) >= 3
    /\ LastCall.op = "create_connection"
    /\ LastCall.ret = "TooManyConnections"
    /\ manager.max_connections = 2
    /\ manager.active_count = 2

\* the calls of the registry scenario: create, create, create, remove, create
C4_ScenarioRan ==
    /\ manager.max_connections = 2
    /\ Len(trace) = 5
    /\ [i \in 1..5 |-> trace[i].op] =
         <<"create_connection", "create_connection", "create_connection",
           "remove_connection", "create_connection">>
    /\ trace[4].ret = "Some"

\* C4: total_connections is the number of create_connection calls that
\* succeeded; a step changes it only by a successful create, which adds one
\* (so it never decreases and a rejected create, remove_connection and
\* cleanup_stale leave it alone); and with max_connections = 2 the calls create,
\* create, create (rejected), remove, create end with active_count = 2 and
\* total_connections = 3.
C4_TotalIsLifetime ==
    /\ [](manager.total_connections = Cardinality(OkCreates))
    /\ [](C4_ScenarioRan =>
            /\ trace[3].ret = "TooManyConnections"
            /\ trace[5].ret = "Ok"
            /\ manager.active_count = 2
            /\ manager.total_connections = 3)
    /\ [][manager'.total_connections =
            IF Completed("create_connection") /\ trace'[Len(trace')].ret = "Ok"
            THEN manager.total_connections + 1
            ELSE manager.total_connections]_vars

C4_Witness ==
    /\ C4_ScenarioRan
    /\ manager.total_connections = 3

\* idle time of a registered session
Idle(id) == now - session[id].last_activity

\* C6: cleanup_stale(timeout) with nothing else running removes exactly the
\* registered sessions idle for strictly more than timeout, keeps those idle
\* for timeout or less, lowers active_count by the number removed and leaves
\* total_connections alone.
C6_CleanupRemovesExactlyStale ==
    [][Completed("cleanup_stale") =>
        LET timeout == trace'[Len(trace')].arg
            stale == {id \in manager.connections : Idle(id) > timeout}
            fresh == {id \in manager.connections : Idle(id) <= timeout}
        IN /\ manager'.connections = fresh
           /\ manager'.connections \cap stale = {}
           /\ manager'.active_count = manager.active_count - Cardinality(stale)
           /\ manager'.total_connections = manager.total_connections]_vars

\* a sweep has just removed a session idle for more than the timeout
\* and kept one idle for exactly the timeout
C6_Witness ==
    /\ Len(trace) > 0
    /\ LastCall.op = "cleanup_stale"
    /\ CallsOf("remove_connection") = {}
    /\ \E kept \in manager.connections : Idle(kept) = LastCall.arg
    /\ \E gone \in DOMAIN session :
          /\ gone \notin manager.connections
          /\ Idle(gone) > LastCall.arg
    /\ manager.active_count = 1
    /\ manager.total_connections = 2

----------------------------------------------------------------------------
(* SpecTasks: the tasks of Server::run on one ConnectionManager.

   Each connection task (server.rs, handle_connection) runs create_connection,
   then owns the connection, then runs remove_connection.  The sweep task
   (start_background_tasks) runs cleanup_stale again and again.  Every action
   is one atomic step of the code: one atomic load or read-modify-write, one
   DashMap operation, or one section under a session mutex. *)

InitTasks ==
    /\ now = 0
    /\ manager \in {ConnectionManager_new(c) : c \in 0..MaxCapacity}
    /\ session = <<>>
    /\ next_uuid = 1
    /\ trace = <<>>
    /\ task = [i \in Tasks |-> TaskIdle]
    /\ sweep \in {[SweepIdle EXCEPT !.timeout = t] : t \in 0..MaxTimeout}
    /\ removals = NoRemovals
    /\ SessionAtRest
    /\ HandshakeAtRest
    /\ ProtoAtRest

\* bookkeeping of a remove_connection call at its map removal ...
Attempt(id, who) == [removals EXCEPT ![id].by = @ \cup {who}]

\* ... and at its decrement of active_count
Decrement(id) ==
    [removals EXCEPT ![id].decs = @ + 1,
                     ![id].below_zero = @ \/ manager.active_count = 0]

\* create_connection, lines 80-88: load active_count and compare
TaskLoad(i) ==
    /\ task[i].pc = "start"
    /\ task' = [task EXCEPT ![i].pc =
                  IF CapacityReached(manager, manager.active_count)
                  THEN "rejected" ELSE "new"]
    /\ UNCHANGED <<mgrVars, sweep, removals, sessVars, hsVars, protoVars>>

\* create_connection, lines 90-91: Connection::new builds the Session
TaskNew(i) ==
    /\ task[i].pc = "new"
    /\ next_uuid <= MaxSessions
    /\ session' = session @@ (next_uuid :> Session_new(now))
    /\ next_uuid' = next_uuid + 1
    /\ task' = [task EXCEPT ![i].pc = "insert", ![i].sid = next_uuid]
    /\ UNCHANGED <<now, manager, trace, sweep, removals, sessVars, hsVars, protoVars>>

\* create_connection, line 95: connections.insert
TaskInsert(i) ==
    /\ task[i].pc = "insert"
    /\ manager' = [manager EXCEPT !.connections = MapInsert(@, task[i].sid)]
    /\ task' = [task EXCEPT ![i].pc = "inc_active"]
    /\ UNCHANGED <<now, session, next_uuid, trace, sweep, removals, sessVars, hsVars, protoVars>>

\* create_connection, line 96: active_count.fetch_add(1)
TaskIncActive(i) ==
    /\ task[i].pc = "inc_active"
    /\ manager' = [manager EXCEPT !.active_count = fetch_add(@, 1)]
    /\ task' = [task EXCEPT ![i].pc = "inc_total"]
    /\ UNCHANGED <<now, session, next_uuid, trace, sweep, removals, sessVars, hsVars, protoVars>>

\* create_connection, line 97: total_connections.fetch_add(1); returns Ok
TaskIncTotal(i) ==
    /\ task[i].pc = "inc_total"
    /\ manager' = [manager EXCEPT !.total_connections = fetch_add(@, 1)]
    /\ task' = [task EXCEPT ![i].pc = "owned"]
    /\ UNCHANGED <<now, session, next_uuid, trace, sweep, removals, sessVars, hsVars, protoVars>>

\* Session::update_activity, line 103: *lock().await = Instant::now().  The
\* assigned value is evaluated first: the clock is read, then the mutex is
\* awaited.
TaskActivitySample(i) ==
    /\ task[i].pc = "owned"
    /\ task' = [task EXCEPT ![i].pc = "activity", ![i].sample = now]
    /\ UNCHANGED <<mgrVars, sweep, removals, sessVars, hsVars, protoVars>>

\* Session::update_activity, line 103: the store under the mutex
TaskActivityStore(i) ==
    /\ task[i].pc = "activity"
    /\ session' = [session EXCEPT ![task[i].sid].last_activity = task[i].sample]
    /\ task' = [task EXCEPT ![i].pc = "owned", ![i].sample = 0]
    /\ UNCHANGED <<now, manager, next_uuid, trace, sweep, removals, sessVars, hsVars, protoVars>>

\* remove_connection by the owning task (server.rs lines 148, 158),
\* line 117: connections.remove
TaskRemove(i) ==
    /\ task[i].pc = "owned"
    /\ manager' = [manager EXCEPT !.connections = MapRemove(@, task[i].sid)]
    /\ task' = [task EXCEPT ![i].pc =
                  IF RemoveHit(manager.connections, task[i].sid)
                  THEN "dec" ELSE "closed"]
    /\ removals' = Attempt(task[i].sid, "task")
    /\ UNCHANGED <<now, session, next_uuid, trace, sweep, sessVars, hsVars, protoVars>>

\* remove_connection, line 120: active_count.fetch_sub(1)
TaskDec(i) ==
    /\ task[i].pc = "dec"
    /\ manager' = [manager EXCEPT !.active_count = fetch_sub(@, 1)]
    /\ removals' = Decrement(task[i].sid)
    /\ task' = [task EXCEPT ![i].pc = "closed"]
    /\ UNCHANGED <<now, session, next_uuid, trace, sweep, sessVars, hsVars, protoVars>>

\* cleanup_stale, line 145: the iteration over the map begins.  The iterator
\* visits every entry present from start to end of the iteration; an entry
\* inserted meanwhile may or may not be visited.
SweepStart ==
    /\ sweep.pc = "idle"
    /\ sweep' = [sweep EXCEPT !.pc = "collect",
                              !.snapshot = manager.connections,
                              !.seen = {}, !.to_remove = <<>>]
    /\ UNCHANGED <<mgrVars, task, removals, sessVars, hsVars, protoVars>>

\* cleanup_stale, lines 146-151: one entry is visited
SweepVisit(id) ==
    /\ sweep.pc = "collect"
    /\ id \in manager.connections \ sweep.seen
    /\ sweep' = [sweep EXCEPT
                   !.seen = @ \cup {id},
                   !.to_remove =
                       IF should_timeout(session[id], now, sweep.timeout)
                       THEN Append(@, id) ELSE @]
    /\ UNCHANGED <<mgrVars, task, removals, sessVars, hsVars, protoVars>>

\* cleanup_stale, line 152: the iteration ends
SweepCollected ==
    /\ sweep.pc = "collect"
    /\ (sweep.snapshot \cap manager.connections) \subseteq sweep.seen
    /\ sweep' = [sweep EXCEPT !.pc = "remove", !.snapshot = {}, !.seen = {}]
    /\ UNCHANGED <<mgrVars, task, removals, sessVars, hsVars, protoVars>>

\* cleanup_stale, lines 154-155, remove_connection line 117
SweepRemove ==
    /\ sweep.pc = "remove"
    /\ sweep.to_remove # <<>>
    /\ LET id == Head(sweep.to_remove)
       IN /\ manager' = [manager EXCEPT !.connections = MapRemove(@, id)]
          /\ sweep' = IF RemoveHit(manager.connections, id)
                      THEN [sweep EXCEPT !.pc = "dec"]
                      ELSE [sweep EXCEPT !.to_remove = Tail(@)]
          /\ removals' = Attempt(id, "sweep")
    /\ UNCHANGED <<now, session, next_uuid, trace, task, sessVars, hsVars, protoVars>>

\* remove_connection, line 120, called from cleanup_stale
SweepDec ==
    /\ sweep.pc = "dec"
    /\ manager' = [manager EXCEPT !.active_count = fetch_sub(@, 1)]
    /\ removals' = Decrement(Head(sweep.to_remove))
    /\ sweep' = [sweep EXCEPT !.pc = "remove", !.to_remove = Tail(@)]
    /\ UNCHANGED <<now, session, next_uuid, trace, task, sessVars, hsVars, protoVars>>

\* cleanup_stale, line 157: returns
SweepDone ==
    /\ sweep.pc = "remove"
    /\ sweep.to_remove = <<>>
    /\ sweep' = [sweep EXCEPT !.pc = "idle"]
    /\ UNCHANGED <<mgrVars, task, removals, sessVars, hsVars, protoVars>>

NextTasks ==
    \/ \E i \in Tasks :
          \/ TaskLoad(i)
          \/ TaskNew(i)
          \/ TaskInsert(i)
          \/ TaskIncActive(i)
          \/ TaskIncTotal(i)
          \/ TaskActivitySample(i)
          \/ TaskActivityStore(i)
          \/ TaskRemove(i)
          \/ TaskDec(i)
    \/ SweepStart
    \/ \E id \in Ids : SweepVisit(id)
    \/ SweepCollected
    \/ SweepRemove
    \/ SweepDec
    \/ SweepDone
    \/ Tick

SpecTasks == InitTasks /\ [][NextTasks]_vars

\* C2: with connection tasks calling create_connection concurrently, the
\* number of registered connections and active_count never exceed
\* max_connections.
C2_NeverOverCapacity ==
    /\ Cardinality(manager.connections) <= manager.max_connections
    /\ manager.active_count <= manager.max_connections

\* C5: remove_connection decrements active_count iff the id was in the map;
\* when the sweep task and the owning task have both removed the same id,
\* active_count was decremented exactly once for it and no decrement took
\* the counter below zero.
C5_DecrementedOnceNeverBelowZero ==
    \A id \in Ids :
        removals[id].by = {"task", "sweep"} =>
            /\ removals[id].decs <= 1
            /\ ~removals[id].below_zero

----------------------------------------------------------------------------
(* SpecSession: one Session (id 1) whose Arc is held by every task; the tasks
   call its methods in any order.  update_activity is the two steps of
   TaskActivitySample and TaskActivityStore; every other method is one
   section under a mutex. *)

SessionState == {"Handshaking", "Active", "Disconnecting", "Closed"}

InitSession ==
    /\ now = 0
    /\ manager = ConnectionManager_new(0)
    /\ session = (1 :> Session_new(0))
    /\ next_uuid = 2
    /\ trace = <<>>
    /\ task = [i \in Tasks |-> [TaskIdle EXCEPT !.pc = "owned", !.sid = 1]]
    /\ sweep = SweepIdle
    /\ removals = NoRemovals
    /\ SessionAtRest
    /\ HandshakeAtRest
    /\ ProtoAtRest

RecordsLeft ==
    issued.packets_sent + issued.packets_received + issued.errors < MaxRecords

\* Session::set_state
SetState(id, new_state) ==
    /\ session' = [session EXCEPT ![id] = set_state(@, new_state)]
    /\ UNCHANGED <<now, manager, next_uuid, trace, taskVars, sessVars, hsVars, protoVars>>

\* Session::record_packet_sent
RecordPacketSent(id, size) ==
    /\ RecordsLeft
    /\ session' = [session EXCEPT ![id] = record_packet_sent(@, size)]
    /\ issued' = [issued EXCEPT !.packets_sent = @ + 1, !.bytes_sent = @ + size]
    /\ UNCHANGED <<now, manager, next_uuid, trace, taskVars, hsVars, protoVars>>

\* Session::record_packet_received
RecordPacketReceived(id, size) ==
    /\ RecordsLeft
    /\ session' = [session EXCEPT ![id] = record_packet_received(@, size)]
    /\ issued' = [issued EXCEPT !.packets_received = @ + 1,
                                !.bytes_received = @ + size]
    /\ UNCHANGED <<now, manager, next_uuid, trace, taskVars, hsVars, protoVars>>

\* Session::record_error
RecordError(id) ==
    /\ RecordsLeft
    /\ session' = [session EXCEPT ![id] = record_error(@)]
    /\ issued' = [issued EXCEPT !.errors = @ + 1]
    /\ UNCHANGED <<now, manager, next_uuid, trace, taskVars, hsVars, protoVars>>

NextSession ==
    \/ \E st \in SessionState : SetState(1, st)
    \/ \E size \in 0..MaxSize : RecordPacketSent(1, size)
    \/ \E size \in 0..MaxSize : RecordPacketReceived(1, size)
    \/ RecordError(1)
    \/ \E i \in Tasks : TaskActivitySample(i)
    \/ \E i \in Tasks : TaskActivityStore(i)
    \/ Tick

SpecSession == InitSession /\ [][NextSession]_vars

\* position of a state in the order Handshaking -> Active -> Disconnecting -> Closed
StateRank(st) ==
    CASE st = "Handshaking" -> 0
      [] st = "Active" -> 1
      [] st = "Disconnecting" -> 2
      [] st = "Closed" -> 3

\* C7: a Session's state only moves forward in the order Handshaking ->
\* Active -> Disconnecting -> Closed: no set_state call moves it to an
\* earlier state.
C7_StateOnlyMovesForward ==
    [][StateRank(session'[1].state) >= StateRank(session[1].state)]_vars

\* C8: under any interleaving of update_activity and record_* calls,
\* last_activity and every stats counter are non-decreasing, and the counters
\* are exactly what the record_* calls add up to (no update lost).
C8_ActivityAndStatsMonotone ==
    /\ [](session[1].stats = issued)
    /\ [][/\ session'[1].last_activity >= session[1].last_activity
          /\ session'[1].stats.packets_sent >= session[1].stats.packets_sent
          /\ session'[1].stats.packets_received >= session[1].stats.packets_received
          /\ session'[1].stats.bytes_sent >= session[1].stats.bytes_sent
          /\ session'[1].stats.bytes_received >= session[1].stats.bytes_received
          /\ session'[1].stats.errors >= session[1].stats.errors]_vars

\* the counters alone: exact and non-decreasing
C8_StatsExact ==
    /\ [](session[1].stats = issued)
    /\ [][\A f \in DOMAIN issued : session'[1].stats[f] >= session[1].stats[f]]_vars

----------------------------------------------------------------------------
(* Handshake (handshake.rs) *)

HandshakeState ==
    {"Init", "ClientHelloSent", "ServerHelloReceived", "Completed", "Failed"}

\* Option<T>
None == {}
Some(x) == {x}
Unwrap(o) == CHOOSE x \in o : TRUE

\* generate_random(): 32 random bytes
Randoms == 1..NumRandoms

\* HandshakeMessage
ClientHello(client_random, protocol_version) ==
    [variant |-> "ClientHello", client_random |-> client_random,
     protocol_version |-> protocol_version]

ServerHello(server_random, session_id) ==
    [variant |-> "ServerHello", server_random |-> server_random,
     session_id |-> session_id]

ClientFinish(verification_data) ==
    [variant |-> "ClientFinish", verification_data |-> verification_data]

ServerFinish(verification_data) ==
    [variant |-> "ServerFinish", verification_data |-> verification_data]

\* every message a peer can present: the session ids are those handed out so
\* far and one that was not
Messages ==
    {ClientHello(r, v) : r \in Randoms, v \in 0..MaxVersion}
        \cup {ServerHello(r, id) : r \in Randoms, id \in 1..next_uuid}
        \cup {ClientFinish(<<>>), ServerFinish(<<>>)}

\* Result<T>
Ok(value) == [ok |-> TRUE, value |-> value]
Err(error, message) == [ok |-> FALSE, error |-> error, message |-> message]

\* Display of an unsigned integer: its decimal digits
RECURSIVE Decimal(_)
Decimal(n) ==
    LET digit == <<"0", "1", "2", "3", "4", "5", "6", "7", "8", "9">>[(n % 10) + 1]
    IN IF n < 10 THEN <<digit>> ELSE Append(Decimal(n \div 10), digit)

\* format!("<text>{}", n)
Format(text, n) == <<text>> \o Decimal(n)

\* Handshake::new_server
Handshake_new_server ==
    [state |-> "Init", client_random |-> None, server_random |-> None,
     session_id |-> None]

\* Handshake::new_client
Handshake_new_client(random) ==
    [state |-> "Init", client_random |-> Some(random), server_random |-> None,
     session_id |-> None]

\* Handshake::is_completed
is_completed(h) == h.state = "Completed"

VersionSupported_atleast(protocol_version) == protocol_version >= 1

\* process_client_hello, line 119: *protocol_version != 1 is refused
VersionSupported(protocol_version) == protocol_version = 1

StateAfterClientHello_completed == "Completed"

\* process_client_hello, line 134
StateAfterClientHello == "ServerHelloReceived"

\* Handshake::generate_client_hello.  The result is the Handshake afterwards
\* and the value returned; the method is a set of results, one for each value
\* generate_random() can return where the code calls it.
generate_client_hello(h) ==
    IF h.state # "Init"
    THEN {[h |-> h, ret |-> Err("HandshakeFailed", <<"Invalid state for ClientHello">>)]}
    ELSE {[h |-> [h EXCEPT !.client_random = Some(client_random),
                           !.state = "ClientHelloSent"],
           ret |-> Ok(ClientHello(client_random, 1))]
          : client_random \in IF h.client_random = None
                              THEN Randoms ELSE h.client_random}

\* Handshake::process_client_hello; uuid is what Uuid::new_v4() would return
process_client_hello(h, msg, uuid) ==
    IF h.state # "Init"
    THEN {[h |-> h,
           ret |-> Err("HandshakeFailed", <<"Invalid state for processing ClientHello">>)]}
    ELSE IF msg.variant = "ClientHello"
    THEN IF ~VersionSupported(msg.protocol_version)
         THEN {[h |-> h,
                ret |-> Err("HandshakeFailed",
                            Format("Unsupported protocol version: ",
                                   msg.protocol_version))]}
         ELSE {[h |-> [h EXCEPT !.client_random = Some(msg.client_random),
                                !.server_random = Some(server_random),
                                !.session_id = Some(uuid),
                                !.state = StateAfterClientHello],
                ret |-> Ok(ServerHello(server_random, uuid))]
               : server_random \in Randoms}
    ELSE {[h |-> h, ret |-> Err("HandshakeFailed", <<"Expected ClientHello message">>)]}

StateForServerHello_init == "Init"

\* process_server_hello, line 149: the only state it accepts
StateForServerHello == "ClientHelloSent"

\* Handshake::process_server_hello
process_server_hello(h, msg) ==
    IF h.state # StateForServerHello
    THEN [h |-> h,
          ret |-> Err("HandshakeFailed", <<"Invalid state for processing ServerHello">>)]
    ELSE IF msg.variant = "ServerHello"
    THEN [h |-> [h EXCEPT !.server_random = Some(msg.server_random),
                          !.session_id = Some(msg.session_id),
                          !.state = "Completed"],
          ret |-> Ok(<<>>)]
    ELSE [h |-> h, ret |-> Err("HandshakeFailed", <<"Expected ServerHello message">>)]

----------------------------------------------------------------------------
(* SpecHandshake: a Handshake built by new_client and one built by
   new_server.  Any method is called on either, with any message a peer can
   present. *)

Peers == {"client", "server"}

HsCall(fn, on, msg, ret) == [fn |-> fn, on |-> on, msg |-> msg, ret |-> ret]

InitHandshake ==
    /\ now = 0
    /\ manager = ConnectionManager_new(0)
    /\ session = <<>>
    /\ next_uuid = 1
    /\ trace = <<>>
    /\ TasksAtRest
    /\ SessionAtRest
    /\ hs \in {[client |-> Handshake_new_client(r), server |-> Handshake_new_server]
                 : r \in Randoms}
    /\ last_call = <<>>
    /\ ProtoAtRest

GenerateClientHello(on) ==
    \E r \in generate_client_hello(hs[on]) :
       /\ hs' = [hs EXCEPT ![on] = r.h]
       /\ last_call' = HsCall("generate_client_hello", on, <<>>, r.ret)
       /\ UNCHANGED <<mgrVars, taskVars, sessVars, protoVars>>

ProcessClientHello(on, msg) ==
    \E r \in process_client_hello(hs[on], msg, next_uuid) :
       /\ r.ret.ok => next_uuid <= MaxSessions
       /\ hs' = [hs EXCEPT ![on] = r.h]
       /\ next_uuid' = IF r.ret.ok THEN next_uuid + 1 ELSE next_uuid
       /\ last_call' = HsCall("process_client_hello", on, msg, r.ret)
       /\ UNCHANGED <<now, manager, session, trace, taskVars, sessVars, protoVars>>

ProcessServerHello(on, msg) ==
    LET r == process_server_hello(hs[on], msg)
    IN /\ hs' = [hs EXCEPT ![on] = r.h]
       /\ last_call' = HsCall("process_server_hello", on, msg, r.ret)
       /\ UNCHANGED <<mgrVars, taskVars, sessVars, protoVars>>

NextHandshake ==
    \/ \E on \in Peers : GenerateClientHello(on)
    \/ \E on \in Peers, msg \in Messages : ProcessClientHello(on, msg)
    \/ \E on \in Peers, msg \in Messages : ProcessServerHello(on, msg)

SpecHandshake == InitHandshake /\ [][NextHandshake]_vars

\* C9, the happy path, one call at a time.  Every step of SpecHandshake is a
\* call, described by last_call after the step.
\*   - generate_client_hello on the client in Init moves it to ClientHelloSent
\*     and returns ClientHello with protocol_version 1 and its client_random;
\*   - process_client_hello on the server in Init, given that ClientHello,
\*     moves it to ServerHelloReceived, stores the client_random, and returns a
\*     ServerHello carrying the server_random and session_id it stored;
\*   - process_server_hello on the client in ClientHelloSent, given that
\*     ServerHello, moves it to Completed with the same server_random and
\*     session_id, so is_completed() holds on the client while the server
\*     stays in ServerHelloReceived.
C9_HappyPath ==
    [][LET c == last_call'
       IN /\ (c.fn = "generate_client_hello" /\ c.on = "client"
                 /\ hs.client.state = "Init")
             => /\ hs'.client.state = "ClientHelloSent"
                /\ hs'.client.client_random = hs.client.client_random
                /\ c.ret = Ok(ClientHello(Unwrap(hs.client.client_random), 1))
          /\ (c.fn = "process_client_hello" /\ c.on = "server"
                 /\ hs.server.state = "Init"
                 /\ hs.client.state = "ClientHelloSent"
                 /\ c.msg = ClientHello(Unwrap(hs.client.client_random), 1))
             => /\ hs'.server.state = "ServerHelloReceived"
                /\ hs'.server.client_random = Some(c.msg.client_random)
                /\ c.ret.ok
                /\ c.ret.value.variant = "ServerHello"
                /\ hs'.server.server_random = Some(c.ret.value.server_random)
                /\ hs'.server.session_id = Some(c.ret.value.session_id)
          /\ (c.fn = "process_server_hello" /\ c.on = "client"
                 /\ hs.client.state = "ClientHelloSent"
                 /\ hs.server.state = "ServerHelloReceived"
                 /\ c.msg = ServerHello(Unwrap(hs.server.server_random),
                                        Unwrap(hs.server.session_id)))
             => /\ c.ret = Ok(<<>>)
                /\ is_completed(hs'.client)
                /\ hs'.client.server_random = hs.server.server_random
                /\ hs'.client.session_id = hs.server.session_id
                /\ hs'.server.state = "ServerHelloReceived"]_vars

\* the three calls of the happy path have run
C9_Witness ==
    /\ last_call # <<>>
    /\ last_call.fn = "process_server_hello"
    /\ last_call.on = "client"
    /\ is_completed(hs.client)
    /\ hs.server.state = "ServerHelloReceived"
    /\ hs.server.client_random = hs.client.client_random
    /\ hs.client.server_random = hs.server.server_random
    /\ hs.client.session_id = hs.server.session_id

\* C10: a server Handshake in Init given a ClientHello whose protocol_version
\* is not 1 returns HandshakeFailed("Unsupported protocol version: <v>"), is
\* left in Init or Failed with client_random, server_random and session_id
\* unset, and does not reach ServerHelloReceived.
C10_VersionRejected ==
    [][LET c == last_call'
       IN (c.fn = "process_client_hello" /\ c.on = "server"
              /\ hs.server.state = "Init"
              /\ c.msg.variant = "ClientHello"
              /\ c.msg.protocol_version # 1)
          => /\ c.ret = Err("HandshakeFailed",
                            <<"Unsupported protocol version: ">>
                                \o Decimal(c.msg.protocol_version))
             /\ hs'.server.state \in {"Init", "Failed"}
             /\ hs'.server.state # "ServerHelloReceived"
             /\ hs'.server.client_random = None
             /\ hs'.server.server_random = None
             /\ hs'.server.session_id = None]_vars

\* the server has just refused a ClientHello of version 2
C10_Witness ==
    /\ last_call # <<>>
    /\ last_call.fn = "process_client_hello"
    /\ last_call.on = "server"
    /\ last_call.msg.variant = "ClientHello"
    /\ last_call.msg.protocol_version = 2
    /\ last_call.ret =
         Err("HandshakeFailed", <<"Unsupported protocol version: ", "2">>)
    /\ hs.server = Handshake_new_server

\* the variant each processing method expects
ExpectedVariant(fn) ==
    IF fn = "process_client_hello" THEN "ClientHello" ELSE "ServerHello"

\* C11: from any state, process_client_hello or process_server_hello given a
\* message of the wrong variant returns an error and moves the Handshake to
\* the Failed state.
C11_WrongVariantFails ==
    [][LET c == last_call'
       IN (c.fn \in {"process_client_hello", "process_server_hello"}
              /\ c.msg.variant # ExpectedVariant(c.fn))
          => /\ ~c.ret.ok
             /\ hs'[c.on].state = "Failed"]_vars

\* the state each method accepts
AcceptingState(fn) ==
    IF fn = "process_server_hello" THEN "ClientHelloSent" ELSE "Init"

----------------------------------------------------------------------------
(* protocol/packet.rs: the packet codec.

   A byte is a number in 0..255.  A u16 is a number in 0..65535.  A u64 is
   its four 16-bit limbs, most significant first, so that every u64 can be
   written and no arithmetic leaves the range of the model's integers. *)

PROTOCOL_ID == 19532    \* 0x4C4C
HEADER_SIZE == 24
CrcInit == 65535        \* 0xFFFF
CrcPoly == 4129         \* 0x1021

PacketType ==
    {"Data", "Ack", "HandshakeInit", "HandshakeResponse", "KeepAlive", "Disconnect"}

\* packet_type as u8
PacketType_as_u8(t) ==
    CASE t = "Data" -> 1
      [] t = "Ack" -> 2
      [] t = "HandshakeInit" -> 3
      [] t = "HandshakeResponse" -> 4
      [] t = "KeepAlive" -> 5
      [] t = "Disconnect" -> 6

InsufficientData(expected, actual) ==
    [ok |-> FALSE, error |-> "InsufficientData", expected |-> expected, actual |-> actual]
InvalidProtocolId(id) == [ok |-> FALSE, error |-> "InvalidProtocolId", value |-> id]
InvalidPacketType(byte) == [ok |-> FALSE, error |-> "InvalidPacketType", value |-> byte]
ChecksumMismatch(expected, actual) ==
    [ok |-> FALSE, error |-> "ChecksumMismatch", expected |-> expected, actual |-> actual]

PacketType_from_u8(value) ==
    CASE value = 1 -> Ok("Data")
      [] value = 2 -> Ok("Ack")
      [] value = 3 -> Ok("HandshakeInit")
      [] value = 4 -> Ok("HandshakeResponse")
      [] value = 5 -> Ok("KeepAlive")
      [] value = 6 -> Ok("Disconnect")
      [] OTHER -> InvalidPacketType(value)

\* the u64 of a number below 2^31
U64_from(n) == <<0, 0, n \div 65536, n % 65536>>
U64_MAX == <<65535, 65535, 65535, 65535>>

\* a < b on u64
U64_lt(a, b) ==
    \E i \in 1..4 : a[i] < b[i] /\ \A j \in 1..(i - 1) : a[j] = b[j]

put_u16_le(v) == <<v % 256, v \div 256>>

\* BufMut::put_u16 and u16::to_be_bytes: big-endian
put_u16(v) == <<v \div 256, v % 256>>

\* BufMut::put_u64 and u64::to_be_bytes
put_u64(v) == put_u16(v[1]) \o put_u16(v[2]) \o put_u16(v[3]) \o put_u16(v[4])

\* Buf::get_u16 and Buf::get_u64 of the bytes at position at
get_u16(buf, at) == buf[at] * 256 + buf[at + 1]
get_u64(buf, at) ==
    <<get_u16(buf, at), get_u16(buf, at + 2), get_u16(buf, at + 4), get_u16(buf, at + 6)>>

\* PacketHeader::new; timestamp is what current_timestamp() returns
PacketHeader_new(packet_type, timestamp) ==
    [protocol_id |-> PROTOCOL_ID,
     packet_type |-> packet_type,
     stream_id |-> 0,
     sequence_number |-> U64_from(0),
     timestamp |-> timestamp,
     flags |-> 0,
     checksum |-> 0]

\* PacketHeader::serialize
PacketHeader_serialize(h) ==
    put_u16(h.protocol_id) \o <<PacketType_as_u8(h.packet_type)>>
        \o put_u16(h.stream_id) \o put_u64(h.sequence_number)
        \o put_u64(h.timestamp) \o <<h.flags>> \o put_u16(h.checksum)

\* PacketHeader::deserialize, reading the fields in the order of the code
PacketHeader_deserialize(buf) ==
    IF Len(buf) < HEADER_SIZE
    THEN InsufficientData(HEADER_SIZE, Len(buf))
    ELSE LET protocol_id == get_u16(buf, 1)
         IN IF protocol_id # PROTOCOL_ID
            THEN InvalidProtocolId(protocol_id)
            ELSE LET packet_type == PacketType_from_u8(buf[3])
                 IN IF ~packet_type.ok
                    THEN packet_type
                    ELSE Ok([protocol_id |-> protocol_id,
                             packet_type |-> packet_type.value,
                             stream_id |-> get_u16(buf, 4),
                             sequence_number |-> get_u64(buf, 6),
                             timestamp |-> get_u64(buf, 14),
                             flags |-> buf[22],
                             checksum |-> get_u16(buf, 23)])

\* a ^ b on numbers
RECURSIVE BitXor(_, _)
BitXor(a, b) ==
    IF a = 0 THEN b
    ELSE IF b = 0 THEN a
    ELSE ((a + b) % 2) + 2 * BitXor(a \div 2, b \div 2)

\* calculate_checksum, lines 123-127: one round on the u16 crc
CrcShift(crc) ==
    IF crc >= 32768
    THEN BitXor((crc * 2) % 65536, CrcPoly)
    ELSE (crc * 2) % 65536

RECURSIVE CrcRounds(_, _)
CrcRounds(crc, n) == IF n = 0 THEN crc ELSE CrcRounds(CrcShift(crc), n - 1)

\* calculate_checksum, lines 121-128: one byte
CrcByte(crc, byte) == CrcRounds(BitXor(crc, byte * 256), 8)

\* calculate_checksum, lines 120-129: the loop over the bytes from the i-th
\* on; crc is a u16 at every turn
RECURSIVE CrcBytes(_, _, _)
CrcBytes(crc, data, i) ==
    IF crc \notin 0..65535 \/ i > Len(data)
    THEN crc
    ELSE CrcBytes(CrcByte(crc, data[i]), data, i + 1)

\* PacketHeader::calculate_checksum: CRC16-CCITT over the header without its
\* checksum field, then the payload
calculate_checksum(h, payload) ==
    LET data == put_u16(h.protocol_id) \o <<PacketType_as_u8(h.packet_type)>>
                    \o put_u16(h.stream_id) \o put_u64(h.sequence_number)
                    \o put_u64(h.timestamp) \o <<h.flags>>
    IN CrcBytes(CrcInit, data \o payload, 1)

verify_checksum_always(h, payload) == TRUE

\* PacketHeader::verify_checksum
verify_checksum(h, payload) == calculate_checksum(h, payload) = h.checksum

\* Packet::new
Packet_new(packet_type, payload, timestamp) ==
    LET header == PacketHeader_new(packet_type, timestamp)
    IN [header |-> [header EXCEPT !.checksum = calculate_checksum(header, payload)],
        payload |-> payload]

\* Packet::new_with_metadata
Packet_new_with_metadata(packet_type, stream_id, seq, payload, timestamp) ==
    LET header == [PacketHeader_new(packet_type, timestamp)
                      EXCEPT !.stream_id = stream_id, !.sequence_number = seq]
    IN [header |-> [header EXCEPT !.checksum = calculate_checksum(header, payload)],
        payload |-> payload]

\* Packet::serialize
Packet_serialize(p) == PacketHeader_serialize(p.header) \o p.payload

\* Packet::deserialize
Packet_deserialize(buf) ==
    LET header == PacketHeader_deserialize(buf)
    IN IF ~header.ok
       THEN header
       ELSE LET payload == SubSeq(buf, HEADER_SIZE + 1, Len(buf))
            IN IF ~verify_checksum(header.value, payload)
               THEN ChecksumMismatch(header.value.checksum,
                                     calculate_checksum(header.value, payload))
               ELSE Ok([header |-> header.value, payload |-> payload])

\* Packet::size
Packet_size(p) == HEADER_SIZE + Len(p.payload)

----------------------------------------------------------------------------
(* SpecConnection: one Connection.  Tasks holding it call next_sequence, and
   the task that owns it (server.rs, perform_handshake and handle_data_loop)
   writes the server's packets. *)

MaxCalls == 4       \* next_sequence calls made on the Connection
MaxSent == 3        \* packets the server writes on the connection
MaxPayload == 1     \* payloads are at most this long
MaxStamp == 1       \* current_timestamp() returns one of MaxStamp + 1 values

ByteSamples == {0, 255}
Payloads == UNION {[1..n -> ByteSamples] : n \in 0..MaxPayload}
\* the values current_timestamp() can return
Timestamps == {U64_from(65535 + t) : t \in 0..MaxStamp}

CoreAtRest ==
    /\ now = 0
    /\ manager = ConnectionManager_new(0)
    /\ session = <<>>
    /\ next_uuid = 1
    /\ trace = <<>>
    /\ TasksAtRest
    /\ SessionAtRest
    /\ HandshakeAtRest

\* Connection::new, line 27, and no packet written yet
InitConnection == CoreAtRest /\ ProtoAtRest

next_sequence_new(counter) == [ret |-> counter + 1, sequence_number |-> counter + 1]

\* Connection::next_sequence: fetch_add(1, SeqCst) returns the value before
\* the addition (the u64 wraps far beyond MaxCalls)
next_sequence(counter) == [ret |-> counter, sequence_number |-> counter + 1]

RECURSIVE SumLen(_, _)
SumLen(f, S) ==
    IF S = {} THEN 0
    ELSE LET i == CHOOSE x \in S : TRUE IN Len(f[i]) + SumLen(f, S \ {i})

\* the next_sequence calls made so far
CallsMade == SumLen(returned, Tasks)

\* task i calls next_sequence: one atomic read-modify-write
NextSequence(i) ==
    /\ CallsMade < MaxCalls
    /\ LET r == next_sequence(sequence_number)
       IN /\ sequence_number' = r.sequence_number
          /\ returned' = [returned EXCEPT ![i] = Append(@, r.ret)]
    /\ UNCHANGED <<coreVars, sent, pktVars, keyVars>>

\* write_packet
Write(p) ==
    /\ sent' = Append(sent, p)
    /\ UNCHANGED <<coreVars, sequence_number, returned, pktVars, keyVars>>

\* perform_handshake, lines 188-191: the ServerHello bytes in a HandshakeResponse
SendHandshakeResponse(payload, timestamp) ==
    /\ sent = <<>>
    /\ payload # <<>>
    /\ Write(Packet_new("HandshakeResponse", payload, timestamp))

\* handle_data_loop, lines 242-247: a Data packet is acknowledged
SendAck(timestamp) ==
    /\ sent # <<>>
    /\ Len(sent) < MaxSent
    /\ Write(Packet_new("Ack", <<>>, timestamp))

\* handle_data_loop, lines 248-253: a KeepAlive packet is answered
SendKeepAlive(timestamp) ==
    /\ sent # <<>>
    /\ Len(sent) < MaxSent
    /\ Write(Packet_new("KeepAlive", <<>>, timestamp))

NextConnection ==
    \/ \E i \in Tasks : NextSequence(i)
    \/ \E payload \in Payloads, timestamp \in Timestamps :
          SendHandshakeResponse(payload, timestamp)
    \/ \E timestamp \in Timestamps : SendAck(timestamp)
    \/ \E timestamp \in Timestamps : SendKeepAlive(timestamp)

SpecConnection == InitConnection /\ [][NextConnection]_vars

\* the values next_sequence has returned, to any task
Returned == UNION {{returned[i][k] : k \in 1..Len(returned[i])} : i \in Tasks}

\* C13: after k calls of next_sequence, by whichever tasks in whichever
\* order, the values returned are exactly 0 .. k-1, each returned once (so the
\* first call returned 0 and each later call one more than the call before),
\* and each task saw its own values increase.
C13_SequenceDistinctNoGaps ==
    /\ Returned = 0..(CallsMade - 1)
    /\ Cardinality(Returned) = CallsMade
    /\ sequence_number = CallsMade
    /\ \A i \in Tasks : \A k \in 1..(Len(returned[i]) - 1) :
          returned[i][k] < returned[i][k + 1]

\* two tasks have called next_sequence alternately, MaxCalls times in all
C13_Witness ==
    /\ CallsMade = MaxCalls
    /\ Len(returned[1]) >= 2
    /\ Len(returned[2]) >= 1
    /\ returned[1][1] = 0
    /\ returned[2][1] = 1
    /\ returned[1][2] = 2

\* C14: each packet the server sends on a connection carries a sequence
\* number strictly greater than that of the packet sent before it.
C14_SentSequenceIncreases ==
    \A k \in 1..(Len(sent) - 1) :
        U64_lt(sent[k].header.sequence_number, sent[k + 1].header.sequence_number)

----------------------------------------------------------------------------
(* SpecPacket: a Packet is built by Packet::new or Packet::new_with_metadata
   and serialized; the bytes may be damaged (a field overwritten, a byte
   flipped, the tail cut off) before Packet::deserialize reads them. *)

StreamIds == {513}
SequenceNumbers == {U64_from(1), U64_MAX}
BadProtocolIds == {PROTOCOL_ID + 1}
BadTypeBytes == {0, 7}
BadChecksums == {57005}     \* 0xDEAD, as in test_invalid_checksum
FlipAt == {4, 6, 13, 14, 21, 22, 25}
TruncLengths == {0, HEADER_SIZE - 1, HEADER_SIZE}

InitPacket == CoreAtRest /\ ProtoAtRest

PacketNew(packet_type, payload, timestamp) ==
    /\ packet = <<>>
    /\ packet' = Packet_new(packet_type, payload, timestamp)
    /\ UNCHANGED <<coreVars, connVars, keyVars, wire, decoded>>

PacketNewWithMetadata(packet_type, stream_id, seq, payload, timestamp) ==
    /\ packet = <<>>
    /\ packet' = Packet_new_with_metadata(packet_type, stream_id, seq, payload, timestamp)
    /\ UNCHANGED <<coreVars, connVars, keyVars, wire, decoded>>

Serialize ==
    /\ packet # <<>>
    /\ wire = <<>>
    /\ decoded = <<>>
    /\ wire' = Packet_serialize(packet)
    /\ UNCHANGED <<coreVars, connVars, keyVars, packet, decoded>>

\* the bytes are replaced by others on their way
Damage(bytes) ==
    /\ decoded = <<>>
    /\ wire' = bytes
    /\ UNCHANGED <<coreVars, connVars, keyVars, packet, decoded>>

\* no byte was flipped or cut off yet
BodyIntact ==
    /\ packet # <<>>
    /\ Len(wire) = Packet_size(packet)
    /\ SubSeq(wire, 4, 22) = SubSeq(Packet_serialize(packet), 4, 22)
    /\ SubSeq(wire, 25, Len(wire)) = packet.payload

TamperProtocolId(id) ==
    /\ BodyIntact
    /\ get_u16(wire, 1) = PROTOCOL_ID
    /\ Damage(put_u16(id) \o SubSeq(wire, 3, Len(wire)))

TamperType(byte) ==
    /\ BodyIntact
    /\ wire[3] \in 1..6
    /\ Damage([wire EXCEPT ![3] = byte])

\* as test_invalid_checksum does
TamperChecksum(checksum) ==
    /\ BodyIntact
    /\ get_u16(wire, 23) = packet.header.checksum
    /\ checksum # packet.header.checksum
    /\ Damage(SubSeq(wire, 1, 22) \o put_u16(checksum) \o SubSeq(wire, 25, Len(wire)))

FlipByte(i) ==
    /\ packet # <<>>
    /\ wire = Packet_serialize(packet)
    /\ i <= Len(wire)
    /\ Damage([wire EXCEPT ![i] = 255 - @])

Truncate(n) ==
    /\ n < Len(wire)
    /\ Damage(SubSeq(wire, 1, n))

Deserialize ==
    /\ packet # <<>>
    /\ decoded = <<>>
    /\ decoded' = Packet_deserialize(wire)
    /\ UNCHANGED <<coreVars, connVars, keyVars, packet, wire>>

NextPacket ==
    \/ \E t \in PacketType, payload \in Payloads, timestamp \in Timestamps :
          PacketNew(t, payload, timestamp)
    \/ \E t \in PacketType, stream_id \in StreamIds, seq \in SequenceNumbers,
          payload \in Payloads, timestamp \in Timestamps :
          PacketNewWithMetadata(t, stream_id, seq, payload, timestamp)
    \/ Serialize
    \/ \E id \in BadProtocolIds : TamperProtocolId(id)
    \/ \E byte \in BadTypeBytes : TamperType(byte)
    \/ \E checksum \in BadChecksums : TamperChecksum(checksum)
    \/ \E i \in FlipAt : FlipByte(i)
    \/ \E n \in TruncLengths : Truncate(n)
    \/ Deserialize

SpecPacket == InitPacket /\ [][NextPacket]_vars

\* a step in which Packet::deserialize returns
Deserialized == decoded = <<>> /\ decoded' # <<>>

\* C15: deserializing the serialization of a packet built by Packet::new or
\* Packet::new_with_metadata succeeds and gives back the same header fields
\* (protocol_id, packet_type, stream_id, sequence_number, timestamp, flags,
\* checksum) and the same payload bytes.
C15_RoundTrip ==
    [][(Deserialized /\ wire = Packet_serialize(packet))
          => /\ decoded'.ok
             /\ decoded'.value.header.protocol_id = packet.header.protocol_id
             /\ decoded'.value.header.packet_type = packet.header.packet_type
             /\ decoded'.value.header.stream_id = packet.header.stream_id
             /\ decoded'.value.header.sequence_number = packet.header.sequence_number
             /\ decoded'.value.header.timestamp = packet.header.timestamp
             /\ decoded'.value.header.flags = packet.header.flags
             /\ decoded'.value.header.checksum = packet.header.checksum
             /\ decoded'.value.payload = packet.payload]_vars

\* a packet with a stream id, the largest sequence number and a payload has
\* made the round trip
C15_Witness ==
    /\ packet # <<>>
    /\ decoded # <<>>
    /\ wire = Packet_serialize(packet)
    /\ packet.header.stream_id = 513
    /\ packet.header.sequence_number = U64_MAX
    /\ packet.payload # <<>>
    /\ decoded = Ok(packet)

\* the CRC of the bytes of an input of at least 24 bytes, without the two
\* bytes of the stored checksum
Recomputed(bytes) ==
    CrcBytes(CrcInit, SubSeq(bytes, 1, 22) \o SubSeq(bytes, 25, Len(bytes)), 1)

\* C16: Packet::deserialize checks its input in this order: fewer than 24
\* bytes gives InsufficientData{expected: 24, actual}; a protocol_id other
\* than 0x4C4C gives InvalidProtocolId; a type byte outside 1..6 gives
\* InvalidPacketType(byte); a stored checksum that differs from the
\* recomputed CRC gives ChecksumMismatch{expected: stored, actual:
\* recomputed}; an input failing any of these does not decode.
C16_DecodeRejectsInOrder ==
    [][Deserialized =>
          LET n == Len(wire)
              r == decoded'
              stored == wire[23] * 256 + wire[24]
              recomputed == Recomputed(wire)
          IN IF n < 24 THEN r = InsufficientData(24, n)
             ELSE IF wire[1] * 256 + wire[2] # 19532
                  THEN r.error = "InvalidProtocolId" /\ ~r.ok
             ELSE IF wire[3] \notin 1..6 THEN r = InvalidPacketType(wire[3])
             ELSE IF stored # recomputed
                  THEN r = ChecksumMismatch(stored, recomputed)
             ELSE r.ok]_vars

\* an input with a wrong protocol_id, a wrong type byte and a wrong checksum
\* was refused for its protocol_id
C16_Witness ==
    /\ decoded # <<>>
    /\ ~decoded.ok
    /\ decoded.error = "InvalidProtocolId"
    /\ Len(wire) >= 24
    /\ wire[3] = 7
    /\ wire[23] * 256 + wire[24] = 57005

----------------------------------------------------------------------------
(* crypto/: key derivation, the two AEAD ciphers and the HSE combination.

   HKDF and the AEAD ciphers are ideal: derive_keys is the term of its
   arguments (different arguments give different keys), an AEAD ciphertext
   is the term of its cipher, key, nonce and plaintext and is as long as the
   plaintext plus the tag, and it decrypts only under that key and nonce.
   A byte string that is the XOR of ciphertexts is the set of the terms
   XORed, equal terms cancelling. *)

KEY_ROTATION_INTERVAL == 1800   \* seconds
TAG_SIZE == 16
HseOverhead == 32
HseWindow == 10

\* kdf.rs, derive_keys: HKDF-SHA512 of secret and salt expanded with info
derive_keys(secret, salt, info, output_length) ==
    [hkdf |-> <<secret, salt, info>>, len |-> output_length]

\* kdf.rs, derive_session_keys
derive_session_keys(shared_secret, client_random, server_random) ==
    LET master_secret == derive_keys(shared_secret, <<client_random, server_random>>,
                                     <<"LLP-v1-master-secret">>, 64)
    IN [chacha_key |-> derive_keys(master_secret, <<>>, <<"LLP-chacha20-key">>, 32),
        aes_key |-> derive_keys(master_secret, <<>>, <<"LLP-aes-key">>, 32),
        master_secret |-> master_secret]

\* ChaChaEncryptor::encrypt and AesEncryptor::encrypt
Aead_encrypt(alg, key, plaintext, nonce) ==
    [len |-> Len(plaintext) + TAG_SIZE,
     terms |-> {[alg |-> alg, key |-> key, nonce |-> nonce, plaintext |-> plaintext]}]

\* ChaChaEncryptor::decrypt and AesEncryptor::decrypt
Aead_decrypt(alg, key, ciphertext, nonce) ==
    IF /\ Cardinality(ciphertext.terms) = 1
       /\ \E t \in ciphertext.terms : t.alg = alg /\ t.key = key /\ t.nonce = nonce
    THEN Ok((CHOOSE t \in ciphertext.terms : TRUE).plaintext)
    ELSE Err("Connection", <<alg, " decryption failed">>)

\* c1 ^ c2 over the zipped bytes
BytesXor(a, b) ==
    [len |-> IF a.len < b.len THEN a.len ELSE b.len,
     terms |-> (a.terms \ b.terms) \cup (b.terms \ a.terms)]

\* HSEEncryptor::new
HSE_new(chacha_key, aes_key) == [chacha |-> chacha_key, aes |-> aes_key]

\* HSEEncryptor::encrypt
HSE_encrypt(hse, plaintext, nonce) ==
    LET chacha_encrypted == Aead_encrypt("chacha", hse.chacha, plaintext, nonce)
        aes_encrypted == Aead_encrypt("aes", hse.aes, plaintext, nonce)
    IN IF chacha_encrypted.len # aes_encrypted.len
       THEN Err("Crypto", <<"Ciphertext length mismatch in HSE">>)
       ELSE Ok(BytesXor(chacha_encrypted, aes_encrypted))

Zeros(n) == [i \in 1..n |-> 0]

\* HSEEncryptor::try_decrypt_with_length
try_decrypt_with_length(hse, combined_ciphertext, nonce, plaintext_len) ==
    LET test_plaintext == Zeros(plaintext_len)
        chacha_test == Aead_encrypt("chacha", hse.chacha, test_plaintext, nonce)
        aes_test == Aead_encrypt("aes", hse.aes, test_plaintext, nonce)
    IN IF chacha_test.len # combined_ciphertext.len
          \/ aes_test.len # combined_ciphertext.len
       THEN Err("Crypto", <<"Length mismatch">>)
       ELSE LET plaintext1 == Aead_decrypt("chacha", hse.chacha,
                                           BytesXor(combined_ciphertext, aes_test), nonce)
                plaintext2 == Aead_decrypt("aes", hse.aes,
                                           BytesXor(combined_ciphertext, chacha_test), nonce)
            IN IF plaintext1.ok /\ plaintext2.ok /\ plaintext1.value = plaintext2.value
               THEN Ok(plaintext1.value)
               ELSE Err("Crypto", <<"Decryption failed">>)

\* HSEEncryptor::decrypt, line 69: the estimated plaintext length
HseEstimate(len) == len - HseOverhead

\* HSEEncryptor::decrypt, lines 77-78: the plaintext lengths tried for a
\* ciphertext of more than 32 bytes
HseCandidates(len) ==
    LET estimated_plaintext_len == HseEstimate(len)
        first == IF estimated_plaintext_len > HseWindow
                 THEN estimated_plaintext_len - HseWindow ELSE 0
    IN first..(estimated_plaintext_len + HseWindow)

\* HSEEncryptor::decrypt
HSE_decrypt(hse, ciphertext, nonce) ==
    IF ciphertext.len > HseOverhead
    THEN LET found == {n \in HseCandidates(ciphertext.len) :
                          try_decrypt_with_length(hse, ciphertext, nonce, n).ok}
         IN IF found # {}
            THEN try_decrypt_with_length(hse, ciphertext, nonce,
                                         CHOOSE n \in found : \A m \in found : n <= m)
            ELSE Err("Crypto", <<"HSE decryption failed: could not find valid plaintext">>)
    ELSE Err("Crypto", <<"HSE ciphertext too short">>)

\* KeyManager::new at time t
KeyManager_new(shared_secret, client_random, server_random, auto_rotation, t) ==
    [current_keys |-> derive_session_keys(shared_secret, client_random, server_random),
     previous_keys |-> None,
     last_rotation |-> t,
     shared_secret |-> shared_secret,
     client_random |-> client_random,
     server_random |-> server_random,
     auto_rotation |-> auto_rotation]

\* KeyManager::get_rotation_count at time t
get_rotation_count(k, t) == ((t - k.last_rotation) \div KEY_ROTATION_INTERVAL) + 1

PreviousAfterRotation_none(current) == None

\* rotate_keys, lines 129-130: the current keys become the previous keys
PreviousAfterRotation(current) == Some(current)

\* KeyManager::rotate_keys at time t
rotate_keys(k, t) ==
    LET rotation_count == get_rotation_count(k, t)
        info == Format("LLP-v1-rotation-", rotation_count)
        new_keys == derive_keys(k.shared_secret, <<>>, info, 64)
        rotated_keys ==
            [chacha_key |-> derive_keys(new_keys, <<>>, <<"LLP-chacha20-key">>, 32),
             aes_key |-> derive_keys(new_keys, <<>>, <<"LLP-aes-key">>, 32),
             master_secret |-> new_keys]
    IN [k EXCEPT !.previous_keys = PreviousAfterRotation(k.current_keys),
                 !.current_keys = rotated_keys,
                 !.last_rotation = t]

RotationDue_gt(elapsed) == elapsed > KEY_ROTATION_INTERVAL

\* check_rotation, line 74
RotationDue(elapsed) == elapsed >= KEY_ROTATION_INTERVAL

\* KeyManager::check_rotation at time t: the KeyManager afterwards and the
\* value returned
check_rotation(k, t) ==
    IF ~k.auto_rotation
    THEN [km |-> k, ret |-> Ok(FALSE)]
    ELSE IF RotationDue(t - k.last_rotation)
         THEN [km |-> rotate_keys(k, t), ret |-> Ok(TRUE)]
         ELSE [km |-> k, ret |-> Ok(FALSE)]

\* KeyManager::get_hse_encryptor
get_hse_encryptor(k) == HSE_new(k.current_keys.chacha_key, k.current_keys.aes_key)

\* KeyManager::decrypt_with_fallback
decrypt_with_fallback(k, ciphertext, nonce) ==
    LET current == HSE_decrypt(get_hse_encryptor(k), ciphertext, nonce)
    IN IF current.ok
       THEN current
       ELSE LET previous ==
                    IF k.previous_keys = None
                    THEN Err("Crypto", <<"no previous keys">>)
                    ELSE HSE_decrypt(HSE_new(Unwrap(k.previous_keys).chacha_key,
                                             Unwrap(k.previous_keys).aes_key),
                                     ciphertext, nonce)
            IN IF previous.ok
               THEN previous
               ELSE Err("Crypto",
                        <<"Decryption failed with both current and previous keys">>)

----------------------------------------------------------------------------
(* SpecKeys: one KeyManager, the monotonic clock `now` in seconds, and one
   HSE ciphertext.  history lists the key generations that have been
   current, oldest first; key_call is the last call made and key_ret what
   it returned. *)

MaxRotations == 3

SharedSecret == "shared-secret"
ClientRandom == "client-random"
ServerRandom == "server-random"

\* the keys of another session
ForeignKeys == derive_session_keys("foreign-secret", ClientRandom, ServerRandom)

Instants == {0, KEY_ROTATION_INTERVAL - 1, KEY_ROTATION_INTERVAL,
             KEY_ROTATION_INTERVAL + 1, 2 * KEY_ROTATION_INTERVAL}

PlaintextLengths == {11, 40}
Plaintexts == {[i \in 1..n |-> b] : n \in PlaintextLengths, b \in {0, 83}}
Nonces == {0, 1}

keysFrame == <<manager, session, next_uuid, trace, taskVars, sessVars, hsVars,
               connVars, pktVars, srvVars, stopVars, raceVars>>

InitKeys == CoreAtRest /\ ProtoAtRest

\* fn(args) returns ret at time now, leaving gen generations in history
Called(fn, args, ret, gen) ==
    /\ key_call' = [fn |-> fn, args |-> args, at |-> now, gen |-> gen]
    /\ key_ret' = ret

KeyManagerNew(auto_rotation) ==
    /\ km = <<>>
    /\ km' = KeyManager_new(SharedSecret, ClientRandom, ServerRandom, auto_rotation, now)
    /\ history' = <<km'.current_keys>>
    /\ Called("new", <<>>, Ok(<<>>), 1)
    /\ UNCHANGED <<now, keysFrame, cipher>>

AdvanceTo(t) ==
    /\ km # <<>>
    /\ t > now
    /\ now' = t
    /\ UNCHANGED <<keysFrame, keyVars>>

RotateKeys ==
    /\ km # <<>>
    /\ Len(history) <= MaxRotations
    /\ km' = rotate_keys(km, now)
    /\ history' = Append(history, km'.current_keys)
    /\ Called("rotate_keys", <<>>, Ok(<<>>), Len(history) + 1)
    /\ UNCHANGED <<now, keysFrame, cipher>>

CheckRotation ==
    /\ km # <<>>
    /\ Len(history) <= MaxRotations
    /\ LET r == check_rotation(km, now)
       IN /\ km' = r.km
          /\ history' = IF r.ret.value THEN Append(history, r.km.current_keys)
                        ELSE history
          /\ Called("check_rotation", <<>>, r.ret,
                              IF r.ret.value THEN Len(history) + 1 ELSE Len(history))
    /\ UNCHANGED <<now, keysFrame, cipher>>

\* get_hse_encryptor().encrypt(plaintext, nonce), or the same by the holder
\* of another session's keys
Encrypt(foreign, plaintext, nonce) ==
    /\ km # <<>>
    /\ cipher = <<>>
    /\ LET keys == IF foreign THEN ForeignKeys ELSE km.current_keys
           r == HSE_encrypt(HSE_new(keys.chacha_key, keys.aes_key), plaintext, nonce)
       IN /\ cipher' = [ciphertext |-> r.value, nonce |-> nonce,
                        plaintext |-> plaintext, keys |-> keys]
          /\ Called("encrypt", <<nonce>>, r, Len(history))
    /\ UNCHANGED <<now, keysFrame, km, history>>

DecryptWithFallback(nonce) ==
    /\ km # <<>>
    /\ cipher # <<>>
    /\ Called("decrypt_with_fallback", <<nonce>>,
              decrypt_with_fallback(km, cipher.ciphertext, nonce), Len(history))
    /\ UNCHANGED <<now, keysFrame, km, history, cipher>>

\* get_hse_encryptor().decrypt(ciphertext, nonce)
Decrypt(nonce) ==
    /\ km # <<>>
    /\ cipher # <<>>
    /\ Called("decrypt", <<nonce>>,
              HSE_decrypt(get_hse_encryptor(km), cipher.ciphertext, nonce), Len(history))
    /\ UNCHANGED <<now, keysFrame, km, history, cipher>>

NextKeys ==
    \/ \E auto_rotation \in BOOLEAN : KeyManagerNew(auto_rotation)
    \/ \E t \in Instants : AdvanceTo(t)
    \/ RotateKeys
    \/ CheckRotation
    \/ \E foreign \in BOOLEAN, plaintext \in Plaintexts, nonce \in Nonces :
          Encrypt(foreign, plaintext, nonce)
    \/ \E nonce \in Nonces : DecryptWithFallback(nonce)
    \/ \E nonce \in Nonces : Decrypt(nonce)

SpecKeys == InitKeys /\ [][NextKeys]_vars

\* a step in which fn returns
Returns(fn) == key_call'.fn = fn /\ key_call' # key_call

\* a step that rotates: rotate_keys, or check_rotation returning true
Rotates ==
    \/ Returns("rotate_keys")
    \/ Returns("check_rotation") /\ key_ret'.value

\* C17: after every rotation previous holds exactly the keys that were
\* current immediately before that rotation, and no other generation.
C17_PreviousIsPriorGeneration ==
    [][Rotates => km'.previous_keys = {km.current_keys}]_vars

\* three generations, pairwise different, the oldest no longer held
C17_Witness ==
    /\ Len(history) = 3
    /\ key_call.fn \in {"rotate_keys", "check_rotation"}
    /\ key_call.gen = 3
    /\ history[1] # history[2] /\ history[2] # history[3] /\ history[1] # history[3]
    /\ km.previous_keys = {history[2]}
    /\ km.current_keys = history[3]

\* C18: every rotate_keys call installs current keys that differ from the
\* keys that were current before the call, also when rotations follow each
\* other with no time elapsing between them.
C18_RotationChangesKeys ==
    [][Returns("rotate_keys") => km'.current_keys # km.current_keys]_vars

\* C19: check_rotation rotates iff auto_rotation is set and at least 1800
\* seconds have elapsed since last_rotation: then previous becomes the keys
\* that were current, last_rotation becomes the time of the call and true is
\* returned; otherwise false is returned and the KeyManager is unchanged.
\* rotate_keys rotates whatever auto_rotation and the elapsed time are.
C19_CheckRotation ==
    [][/\ Returns("check_rotation") =>
             IF km.auto_rotation /\ now - km.last_rotation >= 1800
             THEN /\ key_ret' = Ok(TRUE)
                  /\ km'.previous_keys = {km.current_keys}
                  /\ km'.last_rotation = now
                  /\ Len(history') = Len(history) + 1
             ELSE /\ key_ret' = Ok(FALSE)
                  /\ km' = km
                  /\ history' = history
       /\ Returns("rotate_keys") =>
             /\ km'.previous_keys = {km.current_keys}
             /\ km'.last_rotation = now
             /\ Len(history') = Len(history) + 1]_vars

\* check_rotation has rotated exactly 1800 seconds after construction
C19_Witness ==
    /\ key_call.fn = "check_rotation"
    /\ key_ret = Ok(TRUE)
    /\ key_call.at = 1800
    /\ km.last_rotation = 1800
    /\ Len(history) = 2

\* C20: decrypt_with_fallback with the nonce of the encryption returns the
\* plaintext of a ciphertext made under the current keys or under the
\* previous keys, and a Crypto error for any other ciphertext or nonce.
C20_FallbackDecrypts ==
    [][Returns("decrypt_with_fallback") =>
          IF /\ cipher.keys \in {km.current_keys} \cup km.previous_keys
             /\ key_call'.args = <<cipher.nonce>>
          THEN key_ret' = Ok(cipher.plaintext)
          ELSE ~key_ret'.ok /\ key_ret'.error = "Crypto"]_vars

\* C21: HSEEncryptor::decrypt of what HSEEncryptor::encrypt returned, under
\* the same keys and nonce, succeeds and returns the plaintext.
C21_HseRoundTrip ==
    [][(Returns("decrypt")
          /\ cipher.keys = km.current_keys
          /\ key_call'.args = <<cipher.nonce>>)
        => key_ret' = Ok(cipher.plaintext)]_vars

----------------------------------------------------------------------------
(* SpecStats: one caller creates and removes connections, the owners of the
   Sessions record traffic on them (a Session outlives its registry entry),
   and get_stats is taken between those operations. *)

RECURSIVE SumOver(_, _)
SumOver(f, S) ==
    IF S = {} THEN 0
    ELSE LET x == CHOOSE y \in S : TRUE
         IN f[x] + SumOver(f, S \ {x})

StatsScope_all(m, sess) == DOMAIN sess

\* get_stats, line 175: the entries self.connections.iter() visits
StatsScope(m, sess) == m.connections

\* ConnectionManager::get_stats
get_stats(m, sess) ==
    LET over == StatsScope(m, sess)
    IN [active_connections |-> m.active_count,
        total_connections |-> m.total_connections,
        total_packets_sent |-> SumOver([id \in over |-> sess[id].stats.packets_sent], over),
        total_packets_received |->
            SumOver([id \in over |-> sess[id].stats.packets_received], over),
        total_bytes_sent |-> SumOver([id \in over |-> sess[id].stats.bytes_sent], over),
        total_bytes_received |->
            SumOver([id \in over |-> sess[id].stats.bytes_received], over),
        total_errors |-> SumOver([id \in over |-> sess[id].stats.errors], over)]

InitStats ==
    /\ now = 0
    /\ manager = ConnectionManager_new(MaxCapacity)
    /\ session = <<>>
    /\ next_uuid = 1
    /\ trace = <<>>
    /\ TasksAtRest
    /\ SessionAtRest
    /\ HandshakeAtRest
    /\ ProtoAtRest

\* the record_* calls made so far on all Sessions
Recorded ==
    SumOver([id \in DOMAIN session |->
                session[id].stats.packets_sent + session[id].stats.packets_received
                  + session[id].stats.errors], DOMAIN session)

\* the owner of Session id records one packet sent, one packet received or
\* one error
Record(id, what) ==
    /\ id \in DOMAIN session
    /\ Recorded < MaxRecords - 1
    /\ session' = [session EXCEPT ![id] =
                      CASE what = "sent" -> record_packet_sent(@, HEADER_SIZE)
                        [] what = "received" -> record_packet_received(@, HEADER_SIZE + 1)
                        [] what = "error" -> record_error(@)]
    /\ UNCHANGED <<now, manager, next_uuid, trace, taskVars, sessVars, hsVars, protoVars>>

GetStats ==
    /\ Len(trace) < MaxOps
    /\ trace' = Append(trace, Call("get_stats", 0, get_stats(manager, session)))
    /\ UNCHANGED <<now, manager, session, next_uuid, taskVars, sessVars, hsVars, protoVars>>

NextStats ==
    \/ CreateConnection
    \/ \E id \in manager.connections : RemoveConnection(id)
    \/ \E id \in Ids, what \in {"sent", "received", "error"} : Record(id, what)
    \/ GetStats

SpecStats == InitStats /\ [][NextStats]_vars

\* the sum of the counter c over the registered sessions among 1..n
RECURSIVE RegisteredTotal(_, _)
RegisteredTotal(c, n) ==
    IF n = 0 THEN 0
    ELSE RegisteredTotal(c, n - 1)
           + (IF n \in manager.connections THEN session[n].stats[c] ELSE 0)

\* C30: get_stats returns active_count, the lifetime counter and, for every
\* counter, the sum over exactly the sessions now in the registry.
C30_StatsSnapshot ==
    [][Completed("get_stats") =>
          LET snapshot == trace'[Len(trace')].ret
          IN /\ snapshot.active_connections = manager.active_count
             /\ snapshot.total_connections = manager.total_connections
             /\ snapshot.total_packets_sent = RegisteredTotal("packets_sent", MaxSessions)
             /\ snapshot.total_packets_received =
                   RegisteredTotal("packets_received", MaxSessions)
             /\ snapshot.total_bytes_sent = RegisteredTotal("bytes_sent", MaxSessions)
             /\ snapshot.total_bytes_received =
                   RegisteredTotal("bytes_received", MaxSessions)
             /\ snapshot.total_errors = RegisteredTotal("errors", MaxSessions)]_vars

\* two snapshots, the later one lower than the earlier one because a session
\* with traffic was removed in between, while another session is registered
C30_Witness ==
    \E i, j \in CallsOf("get_stats") :
        /\ i < j
        /\ j = Len(trace)
        /\ trace[j].ret.total_bytes_sent < trace[i].ret.total_bytes_sent
        /\ trace[j].ret.active_connections = 1
        /\ trace[j].ret.total_connections = 2
        /\ \E id \in DOMAIN session : id \notin manager.connections
                                        /\ session[id].stats.bytes_sent > 0

----------------------------------------------------------------------------
(* SpecServer: one connection task (server.rs: handle_connection,
   perform_handshake, handle_data_loop) with its client on the other end of
   the TcpStream, the sweep (cleanup_stale) and the clock.

   The client's bytes arrive one unit at a time and stay in tcp.inbox until
   the task reads them.  HandshakeMessage::to_bytes / from_bytes are
   serde_json in the program; the model keeps a byte codec with the same
   shape: one tag byte for the variant, then the fields, and from_bytes
   refusing everything else. *)

MaxSends == 3       \* units the client sends on the connection
MaxPipelined == 1   \* units the client sends ahead of the task's reads
PayloadBuffer == 4096

\* HandshakeMessage::to_bytes
to_bytes(msg) ==
    CASE msg.variant = "ClientHello" -> <<1, msg.client_random, msg.protocol_version>>
      [] msg.variant = "ServerHello" -> <<2, msg.server_random, msg.session_id>>
      [] msg.variant = "ClientFinish" -> <<3>> \o msg.verification_data
      [] msg.variant = "ServerFinish" -> <<4>> \o msg.verification_data

\* HandshakeMessage::from_bytes
from_bytes(data) ==
    IF Len(data) = 3 /\ data[1] = 1 THEN Ok(ClientHello(data[2], data[3]))
    ELSE IF Len(data) = 3 /\ data[1] = 2 THEN Ok(ServerHello(data[2], data[3]))
    ELSE IF Len(data) >= 1 /\ data[1] = 3 THEN Ok(ClientFinish(Tail(data)))
    ELSE IF Len(data) >= 1 /\ data[1] = 4 THEN Ok(ServerFinish(Tail(data)))
    ELSE Err("HandshakeFailed", <<"Deserialization error">>)

\* current_timestamp() when the clock shows t
Stamp(t) == U64_from(65535 + t)

\* the bytes of a packet the client builds with Packet::new
ClientPacket(packet_type, payload) ==
    Packet_serialize(Packet_new(packet_type, payload, Stamp(0)))

\* bytes with the byte at position i replaced
WithByte(bytes, i, b) == [bytes EXCEPT ![i] = b]

GoodHello == ClientPacket("HandshakeInit", to_bytes(ClientHello(1, 1)))

\* what a client can send first
HelloUnits ==
    {GoodHello,
     ClientPacket("HandshakeInit", to_bytes(ClientHello(1, 2))),
     ClientPacket("HandshakeInit", to_bytes(ClientFinish(<<>>))),
     ClientPacket("HandshakeInit", <<9>>),
     ClientPacket("Data", to_bytes(ClientHello(1, 1))),
     WithByte(GoodHello, HEADER_SIZE, (GoodHello[HEADER_SIZE] + 1) % 256)}

EmptyData == ClientPacket("Data", <<>>)

\* a Data packet whose payload is itself the bytes of a KeepAlive packet
LoadedData == ClientPacket("Data", ClientPacket("KeepAlive", <<>>))

\* what a client can send afterwards: well-formed packets, and units with a
\* bad protocol id, a bad packet type and a bad checksum
DataUnits ==
    {EmptyData, LoadedData,
     ClientPacket("KeepAlive", <<>>),
     ClientPacket("Disconnect", <<>>),
     ClientPacket("Ack", <<>>),
     ClientPacket("HandshakeInit", <<>>),
     ClientPacket("HandshakeResponse", <<>>),
     WithByte(EmptyData, 1, 0),
     WithByte(EmptyData, 3, 7),
     WithByte(EmptyData, HEADER_SIZE, (EmptyData[HEADER_SIZE] + 1) % 256)}

\* the sequences of at most k later units, as bytes
RECURSIVE Pipelines(_)
Pipelines(k) ==
    IF k = 0 THEN {<<>>}
    ELSE LET shorter == Pipelines(k - 1)
         IN shorter \cup {p \o unit : p \in shorter, unit \in DataUnits}

\* Packet::deserialize, with the result for the buffers the task can come to
\* read worked out once: the units, the header of LoadedData, and a
\* ClientHello with what was sent behind it before the task read it
KnownUnits ==
    HelloUnits \cup DataUnits \cup {SubSeq(LoadedData, 1, HEADER_SIZE)}
        \cup {GoodHello \o p : p \in Pipelines(MaxPipelined)}
DeserializedUnit == [unit \in KnownUnits |-> Packet_deserialize(unit)]
Deserialize_(buf) ==
    IF buf \in KnownUnits THEN DeserializedUnit[buf] ELSE Packet_deserialize(buf)

\* the replies of handle_data_loop, lines 244 and 250, by type and time
Replies ==
    [packet_type \in {"Ack", "KeepAlive"} |->
        [t \in 0..MaxTime |-> Packet_new(packet_type, <<>>, Stamp(t))]]

\* the reply of perform_handshake, lines 189-193, by ServerHello and time
HandshakeResponses ==
    [msg \in {ServerHello(r, 2) : r \in Randoms} |->
        [t \in 0..MaxTime |-> Packet_new("HandshakeResponse", to_bytes(msg), Stamp(t))]]
HandshakeResponse_(msg, t) ==
    IF msg \in DOMAIN HandshakeResponses THEN HandshakeResponses[msg][t]
    ELSE Packet_new("HandshakeResponse", to_bytes(msg), Stamp(t))

Io(kind) == Err("Io", <<kind>>)

InitServer ==
    /\ now = 0
    /\ manager = ConnectionManager_new(MaxCapacity)
    /\ session = <<>>
    /\ next_uuid = 1
    /\ trace = <<>>
    /\ TasksAtRest
    /\ SessionAtRest
    /\ HandshakeAtRest
    /\ ProtoAtRest

serverFrame ==
    <<trace, taskVars, sessVars, hsVars, connVars, pktVars, keyVars, stopVars, raceVars>>

\* the task returns r from handle_connection
Returned_(r) == [ctask EXCEPT !.pc = "done", !.result = Some(r)]

\* handle_connection returning the result with the entry left in place
TearDown_keep(r) ==
    /\ manager' = manager
    /\ ctask' = Returned_(r)

\* handle_connection, lines 146-150 and 156-160: the entry is removed and
\* the result returned
TearDown(r) ==
    /\ manager' = remove_connection(manager, ctask.sid)
    /\ ctask' = Returned_(r)

\* whether a write_packet succeeds: always while the client keeps the socket
\* open, either way once it has closed or reset it
WriteOutcomes == IF tcp.peer = "open" THEN {TRUE} ELSE BOOLEAN

\* handle_connection, line 135: create_connection
Accept ==
    /\ ctask.pc = "accept"
    /\ IF CapacityReached(manager, manager.active_count)
       THEN /\ ctask' = Returned_(Err("TooManyConnections", <<>>))
            /\ UNCHANGED <<manager, session, next_uuid>>
       ELSE /\ session' = session @@ (next_uuid :> Session_new(now))
            /\ manager' = create_insert(manager, next_uuid)
            /\ next_uuid' = next_uuid + 1
            /\ ctask' = [ctask EXCEPT !.pc = "read_header", !.sid = next_uuid,
                                      !.handshake = Some(Handshake_new_server)]
    /\ UNCHANGED <<now, tcp, evlog, serverFrame>>

\* read_packet, line 275: read_exact(HEADER_SIZE)
HandshakeReadHeader ==
    /\ ctask.pc = "read_header"
    /\ IF tcp.peer = "reset"
       THEN TearDown(Io("ConnectionReset")) /\ UNCHANGED tcp
       ELSE IF Len(tcp.inbox) >= HEADER_SIZE
       THEN /\ ctask' = [ctask EXCEPT !.pc = "read_payload"]
            /\ UNCHANGED <<manager, tcp>>
       ELSE /\ tcp.peer = "eof"
            /\ TearDown(Io("UnexpectedEof"))
            /\ UNCHANGED tcp
    /\ UNCHANGED <<now, session, next_uuid, evlog, serverFrame>>

\* what evlog holds, if anything: the bytes the task handed to
\* Packet::deserialize last, in the handshake or in the data loop, and what
\* it returned
Event(phase, unit, parsed) == [phase |-> phase, unit |-> unit, parsed |-> parsed]

\* perform_handshake, lines 173-186, on the packet read: the value returned
\* to line 189 and the Handshake afterwards, one for each server random
HelloOutcomes(parsed) ==
    LET h == Unwrap(ctask.handshake)
        fail(e) == {[h |-> h, ret |-> e]}
    IN IF ~parsed.ok THEN fail(parsed)
       ELSE IF parsed.value.header.packet_type # "HandshakeInit"
       THEN fail(Err("HandshakeFailed", <<"Expected HandshakeInit packet">>))
       ELSE LET client_hello == from_bytes(parsed.value.payload)
            IN IF ~client_hello.ok THEN fail(client_hello)
               ELSE process_client_hello(h, client_hello.value, next_uuid)

\* read_packet, lines 283-290, and perform_handshake, lines 173-186: one
\* read of whatever has arrived behind the header, then decode and process
HandshakeReadPayload ==
    /\ ctask.pc = "read_payload"
    /\ IF tcp.peer = "reset"
       THEN /\ TearDown(Io("ConnectionReset"))
            /\ UNCHANGED <<tcp, evlog, next_uuid>>
       ELSE /\ Len(tcp.inbox) > HEADER_SIZE \/ tcp.peer = "eof"
            /\ LET behind == Len(tcp.inbox) - HEADER_SIZE
                   n == IF behind < PayloadBuffer THEN behind ELSE PayloadBuffer
                   buf == SubSeq(tcp.inbox, 1, HEADER_SIZE + n)
                   parsed == Deserialize_(buf)
               IN /\ tcp' = [tcp EXCEPT !.inbox = SubSeq(@, HEADER_SIZE + n + 1, Len(@))]
                  /\ evlog' = <<Event("handshake", buf, parsed)>>
                  /\ \E o \in HelloOutcomes(parsed) :
                        IF o.ret.ok
                        THEN /\ ctask' = [ctask EXCEPT !.pc = "write_hello",
                                                       !.handshake = Some(o.h),
                                                       !.hello = Some(o.ret.value)]
                             /\ next_uuid' = next_uuid + 1
                             /\ UNCHANGED manager
                        ELSE /\ TearDown(o.ret)
                             /\ UNCHANGED next_uuid
    /\ UNCHANGED <<now, session, serverFrame>>

\* perform_handshake, lines 189-196: the ServerHello is written
HandshakeWrite ==
    /\ ctask.pc = "write_hello"
    /\ \E written \in WriteOutcomes :
          IF written
          THEN /\ tcp' = [tcp EXCEPT !.out = Append(@,
                             HandshakeResponse_(Unwrap(ctask.hello), now))]
               /\ ctask' = [ctask EXCEPT !.pc = "activate"]
               /\ UNCHANGED manager
          ELSE /\ TearDown(Io("BrokenPipe"))
               /\ UNCHANGED tcp
    /\ UNCHANGED <<now, session, next_uuid, evlog, serverFrame>>

\* handle_connection with line 144 ahead of the write of the ServerHello
Activate_unwritten ==
    /\ ctask.pc = "write_hello"
    /\ session' = [session EXCEPT ![ctask.sid] = set_state(@, "Active")]
    /\ ctask' = [ctask EXCEPT !.pc = "loop"]
    /\ UNCHANGED <<now, manager, next_uuid, tcp, evlog, serverFrame>>

\* handle_connection, line 144
Activate ==
    /\ ctask.pc = "activate"
    /\ session' = [session EXCEPT ![ctask.sid] = set_state(@, "Active")]
    /\ ctask' = [ctask EXCEPT !.pc = "loop"]
    /\ UNCHANGED <<now, manager, next_uuid, tcp, evlog, serverFrame>>

\* a dispatch that also acknowledges an Ack
ReplyTo_all(packet_type) ==
    CASE packet_type \in {"Data", "Ack"} -> Some("Ack")
      [] packet_type = "KeepAlive" -> Some("KeepAlive")
      [] OTHER -> None

\* handle_data_loop, lines 241-261: the packet type written in reply
ReplyTo(packet_type) ==
    CASE packet_type = "Data" -> Some("Ack")
      [] packet_type = "KeepAlive" -> Some("KeepAlive")
      [] OTHER -> None

\* an update_activity that leaves last_activity alone
update_activity_none(s, t) == s

\* Session::update_activity
update_activity(s, t) == [s EXCEPT !.last_activity = t]

\* handle_data_loop, one turn of the loop
LoopTurn ==
    /\ ctask.pc = "loop"
    /\ IF tcp.peer = "reset"
       THEN /\ TearDown(Io("ConnectionReset"))
            /\ UNCHANGED <<tcp, evlog, session>>
       ELSE IF Len(tcp.inbox) < HEADER_SIZE
       THEN /\ tcp.peer = "eof"
            /\ TearDown(Ok(<<>>))
            /\ UNCHANGED <<tcp, evlog, session>>
       ELSE LET unit == SubSeq(tcp.inbox, 1, HEADER_SIZE)
                rest == SubSeq(tcp.inbox, HEADER_SIZE + 1, Len(tcp.inbox))
                parsed == Deserialize_(unit)
                sid == ctask.sid
            IN /\ evlog' = <<Event("loop", unit, parsed)>>
               /\ IF ~parsed.ok
                  THEN /\ session' = [session EXCEPT ![sid] = record_error(@)]
                       /\ tcp' = [tcp EXCEPT !.inbox = rest]
                       /\ UNCHANGED <<manager, ctask>>
                  ELSE LET p == parsed.value
                           counted == update_activity(
                                         record_packet_received(session[sid], Packet_size(p)),
                                         now)
                           reply == ReplyTo(p.header.packet_type)
                       IN IF reply # None
                          THEN \E written \in WriteOutcomes :
                                  LET answer == Replies[Unwrap(reply)][now]
                                  IN IF written
                                     THEN /\ tcp' = [tcp EXCEPT !.inbox = rest,
                                                                !.out = Append(@, answer)]
                                          /\ session' = [session EXCEPT ![sid] =
                                                record_packet_sent(counted, Packet_size(answer))]
                                          /\ UNCHANGED <<manager, ctask>>
                                     ELSE /\ tcp' = [tcp EXCEPT !.inbox = rest]
                                          /\ session' = [session EXCEPT ![sid] = counted]
                                          /\ TearDown(Io("BrokenPipe"))
                          ELSE /\ tcp' = [tcp EXCEPT !.inbox = rest]
                               /\ session' = [session EXCEPT ![sid] = counted]
                               /\ IF p.header.packet_type = "Disconnect"
                                  THEN TearDown(Ok(<<>>))
                                  ELSE UNCHANGED <<manager, ctask>>
    /\ UNCHANGED <<now, next_uuid, serverFrame>>

\* the client sends one unit: a first unit and, behind a well-formed
\* ClientHello, later ones, running at most MaxPipelined units ahead of the
\* task's reads.  (What it sends before the task has run create_connection
\* waits in the socket just the same.)
Send(unit) ==
    /\ tcp.peer = "open"
    /\ ctask.pc \notin {"accept", "done"}
    /\ tcp.sends < MaxSends
    /\ IF ctask.pc \in {"read_header", "read_payload"}
       THEN tcp.sends <= MaxPipelined
       ELSE Len(tcp.inbox) < MaxPipelined * HEADER_SIZE
    /\ IF tcp.sends = 0 THEN unit \in HelloUnits
                        ELSE tcp.greeted /\ unit \in DataUnits
    /\ tcp' = [tcp EXCEPT !.inbox = @ \o unit, !.sends = @ + 1,
                          !.greeted = @ \/ unit = GoodHello]
    /\ UNCHANGED <<now, manager, session, next_uuid, ctask, evlog, serverFrame>>

\* the client closes its side of the socket, or resets the connection
Hangup(how) ==
    /\ tcp.peer = "open"
    /\ ctask.pc \notin {"accept", "done"}
    /\ tcp' = [tcp EXCEPT !.peer = how]
    /\ UNCHANGED <<now, manager, session, next_uuid, ctask, evlog, serverFrame>>

\* the cleanup task of start_background_tasks: cleanup_stale(timeout)
Sweep(timeout) ==
    /\ manager.connections # {}
    /\ manager' = cleanup_stale(manager, session, now, timeout)
    /\ manager' # manager
    /\ UNCHANGED <<now, session, next_uuid, ctask, tcp, evlog, serverFrame>>

\* the clock advances
ServerTick ==
    /\ now < MaxTimeout
    /\ ctask.pc \notin {"accept", "done"}
    /\ now' = now + 1
    /\ UNCHANGED <<manager, session, next_uuid, ctask, tcp, evlog, serverFrame>>

NextServer ==
    \/ Accept
    \/ HandshakeReadHeader
    \/ HandshakeReadPayload
    \/ HandshakeWrite
    \/ Activate
    \/ LoopTurn
    \/ \E unit \in HelloUnits \cup DataUnits : Send(unit)
    \/ \E how \in {"eof", "reset"} : Hangup(how)
    \/ \E timeout \in 0..MaxTimeout : Sweep(timeout)
    \/ ServerTick

SpecServer == InitServer /\ [][NextServer]_vars

-----------------------------------------------------------------------------
(* Claims on SpecServer *)

\* the session of the task is stored with state st
TaskSessionIs(st) ==
    /\ ctask.sid \in DOMAIN session
    /\ session[ctask.sid].state = st

\* this step sets the session of the task Active
Activated ==
    /\ ctask.sid \in DOMAIN session
    /\ session[ctask.sid].state # "Active"
    /\ session'[ctask.sid].state = "Active"

\* this step is a turn of the data loop on a unit it read
LoopRead ==
    /\ ctask.pc = "loop"
    /\ Len(tcp'.inbox) < Len(tcp.inbox)

\* the packets of one type among those written to the client
Written(out, packet_type) ==
    {i \in 1..Len(out) : out[i].header.packet_type = packet_type}

\* evlog holds a handshake read of a HandshakeInit packet carrying a
\* ClientHello with protocol_version 1
ReadClientHello ==
    /\ Len(evlog) = 1
    /\ evlog[1].phase = "handshake"
    /\ evlog[1].parsed.ok
    /\ evlog[1].parsed.value.header.packet_type = "HandshakeInit"
    /\ LET msg == from_bytes(evlog[1].parsed.value.payload)
       IN /\ msg.ok
          /\ msg.value.variant = "ClientHello"
          /\ msg.value.protocol_version = 1

\* the only packet written so far is a HandshakeResponse carrying the
\* ServerHello that process_client_hello returned
WroteServerHello ==
    /\ Len(tcp.out) = 1
    /\ tcp.out[1].header.packet_type = "HandshakeResponse"
    /\ ctask.hello # None
    /\ Unwrap(ctask.hello).variant = "ServerHello"
    /\ from_bytes(tcp.out[1].payload) = Ok(Unwrap(ctask.hello))

\* C22: the session is set Active only after one HandshakeInit packet
\* carrying a ClientHello with protocol_version 1 has been read and one
\* HandshakeResponse carrying the ServerHello has been written; the data loop
\* reads no unit while the session is Handshaking; at most one
\* HandshakeResponse is ever written on the connection.
C22_ActiveAfterHandshake ==
    [][/\ Activated => ReadClientHello /\ WroteServerHello
       /\ LoopRead => TaskSessionIs("Active")
       /\ Cardinality(Written(tcp'.out, "HandshakeResponse")) <= 1]_vars

\* the data loop has read a unit on a session made Active after one
\* HandshakeResponse
C22_Witness ==
    /\ TaskSessionIs("Active")
    /\ Len(evlog) = 1 /\ evlog[1].phase = "loop"
    /\ Cardinality(Written(tcp.out, "HandshakeResponse")) = 1

\* this step is perform_handshake failing and handle_connection returning
HandshakeFails ==
    /\ ctask.pc \in {"read_header", "read_payload", "write_hello"}
    /\ ctask'.pc = "done"

\* C23: when the handshake fails, by a read error, a first packet that does
\* not decode or is not a HandshakeInit, a payload that is not a ClientHello
\* of a supported version, or a write error, the task returns the error with
\* the entry out of the registry and active_count one lower than with it;
\* the session is still Handshaking and the task does nothing afterwards.
C23_HandshakeFailureTearsDown ==
    [][/\ HandshakeFails =>
            /\ ctask'.result # None /\ ~Unwrap(ctask'.result).ok
            /\ ctask.sid \notin manager'.connections
            /\ manager'.active_count = Cardinality(manager'.connections)
            /\ ctask.sid \in manager.connections =>
                    manager'.active_count = manager.active_count - 1
            /\ session'[ctask.sid].state = "Handshaking"
       /\ ctask.pc = "done" => /\ ctask' = ctask
                               /\ session' = session
                               /\ tcp' = tcp]_vars

\* a handshake refused by process_client_hello or from_bytes has left the
\* registry empty after one connection was counted
C23_Witness ==
    /\ ctask.pc = "done"
    /\ ctask.result # None
    /\ ~Unwrap(ctask.result).ok
    /\ Unwrap(ctask.result).error \notin {"Io", "TooManyConnections"}
    /\ TaskSessionIs("Handshaking")
    /\ manager.total_connections = 1
    /\ manager.active_count = 0

\* this step is a turn of the data loop that decoded the unit it read
LoopDecoded == LoopRead /\ evlog'[1].parsed.ok

\* this step writes one packet of the type, with an empty payload, behind
\* what was written before
Replied(packet_type) ==
    /\ Len(tcp'.out) = Len(tcp.out) + 1
    /\ SubSeq(tcp'.out, 1, Len(tcp.out)) = tcp.out
    /\ tcp'.out[Len(tcp'.out)].header.packet_type = packet_type
    /\ tcp'.out[Len(tcp'.out)].payload = <<>>

\* C24: a turn of the data loop takes the unit at the head of what has
\* arrived; when it decodes and the client has the socket open, a Data packet
\* has one empty Ack written behind the earlier replies, a KeepAlive one empty
\* KeepAlive, a Disconnect ends the task with Ok and writes nothing, and an
\* Ack, a HandshakeInit or a HandshakeResponse writes nothing and leaves the
\* task in the loop.
C24_Dispatch ==
    [][/\ LoopRead =>
            /\ evlog'[1].unit = SubSeq(tcp.inbox, 1, HEADER_SIZE)
            /\ tcp'.inbox = SubSeq(tcp.inbox, HEADER_SIZE + 1, Len(tcp.inbox))
       /\ (LoopDecoded /\ tcp.peer = "open") =>
            LET packet_type == evlog'[1].parsed.value.header.packet_type
            IN CASE packet_type = "Data" ->
                       Replied("Ack") /\ ctask'.pc = "loop"
                 [] packet_type = "KeepAlive" ->
                       Replied("KeepAlive") /\ ctask'.pc = "loop"
                 [] packet_type = "Disconnect" ->
                       /\ tcp'.out = tcp.out
                       /\ ctask'.pc = "done"
                       /\ ctask'.result = Some(Ok(<<>>))
                 [] OTHER ->
                       /\ packet_type \in {"Ack", "HandshakeInit", "HandshakeResponse"}
                       /\ tcp'.out = tcp.out
                       /\ ctask'.pc = "loop"]_vars

\* a Data packet and then a KeepAlive were answered, in that order
C24_Witness ==
    /\ Len(tcp.out) = 3
    /\ tcp.out[2].header.packet_type = "Ack"
    /\ tcp.out[3].header.packet_type = "KeepAlive"
    /\ ctask.pc = "loop"

\* the well-formed Data packets the client sends, as bytes
SentData == {EmptyData, LoadedData}

\* the bytes d are at the head of what has arrived
AtHead(d) == Len(tcp.inbox) >= Len(d) /\ SubSeq(tcp.inbox, 1, Len(d)) = d

\* C25: a turn of the data loop that finds a well-formed Data packet, with
\* or without payload, at the head of what has arrived takes the whole packet,
\* decodes it, counts it once in packets_received and writes one empty Ack.
C25_DataPacketAcked ==
    [][\A d \in SentData :
          (LoopRead /\ AtHead(d) /\ tcp.peer = "open") =>
              /\ evlog'[1].parsed.ok
              /\ session'[ctask.sid].stats.packets_received =
                     session[ctask.sid].stats.packets_received + 1
              /\ Replied("Ack")
              /\ tcp'.inbox = SubSeq(tcp.inbox, Len(d) + 1, Len(tcp.inbox))]_vars

\* this step is a turn of the data loop on a unit that failed to decode
LoopRefused == LoopRead /\ ~evlog'[1].parsed.ok

\* C26: a turn of the data loop on a 24-byte unit that fails to decode adds
\* one to the session's errors, writes nothing, leaves packets_received,
\* bytes_received and last_activity as they were, leaves the registry as it
\* was and leaves the task in the loop.
C26_MalformedUnitDropped ==
    [][LoopRefused =>
          LET before == session[ctask.sid]
              after == session'[ctask.sid]
          IN /\ after.stats.errors = before.stats.errors + 1
             /\ after.stats.packets_received = before.stats.packets_received
             /\ after.stats.bytes_received = before.stats.bytes_received
             /\ after.last_activity = before.last_activity
             /\ after.state = "Active"
             /\ tcp'.out = tcp.out
             /\ manager' = manager
             /\ ctask' = ctask]_vars

\* a unit was refused some time after the last activity of a registered
\* session, and the task is in the loop with more to read
C26_Witness ==
    /\ ctask.pc = "loop"
    /\ Len(evlog) = 1 /\ evlog[1].phase = "loop" /\ ~evlog[1].parsed.ok
    /\ session[ctask.sid].stats.errors = 1
    /\ session[ctask.sid].last_activity < now
    /\ ctask.sid \in manager.connections
    /\ Len(tcp.inbox) >= HEADER_SIZE

\* C29: once cleanup_stale has removed the session of the task from the
\* registry, a turn of the data loop on the next unit writes no reply and
\* records nothing in the session.
C29_RemovedSessionNotServed ==
    [][(LoopRead /\ ctask.sid \notin manager.connections) =>
          /\ tcp'.out = tcp.out
          /\ session'[ctask.sid].stats = session[ctask.sid].stats]_vars

-----------------------------------------------------------------------------
(* SpecShutdown: Server::run spawning connection tasks, each a select!
   between handle_connection and the recv() of a broadcast receiver that was
   subscribed when its stream was accepted, and Server::shutdown sending on
   the channel.  A receiver sees the messages sent after it subscribed; the
   channel holds one message, and a receiver that missed some gets Lagged
   from recv(), which completes the select! branch just the same. *)

MaxWorkers == 3     \* streams the accept loop accepts
MaxShutdowns == 2   \* calls of Server::shutdown

InitShutdown ==
    /\ now = 0
    /\ manager = ConnectionManager_new(MaxCapacity)
    /\ session = <<>>
    /\ next_uuid = 1
    /\ trace = <<>>
    /\ TasksAtRest
    /\ SessionAtRest
    /\ HandshakeAtRest
    /\ ProtoAtRest

shutdownFrame ==
    <<now, trace, taskVars, sessVars, hsVars, connVars, pktVars, keyVars, srvVars,
      raceVars>>

\* Server::run, lines 62-82: accept, subscribe, spawn
Spawn ==
    /\ Len(workers) < MaxWorkers
    /\ workers' = Append(workers, [pc |-> "spawned", sid |-> 0,
                                   subscribed_at |-> shutdown_tx])
    /\ UNCHANGED <<manager, session, next_uuid, shutdown_tx, shutdownFrame>>

\* handle_connection, line 135: create_connection
Serve(i) ==
    /\ workers[i].pc = "spawned"
    /\ IF CapacityReached(manager, manager.active_count)
       THEN /\ workers' = [workers EXCEPT ![i].pc = "returned"]
            /\ UNCHANGED <<manager, session, next_uuid>>
       ELSE /\ session' = session @@ (next_uuid :> Session_new(now))
            /\ manager' = create_insert(manager, next_uuid)
            /\ next_uuid' = next_uuid + 1
            /\ workers' = [workers EXCEPT ![i].pc = "serving", ![i].sid = next_uuid]
    /\ UNCHANGED <<shutdown_tx, shutdownFrame>>

\* handle_connection, lines 146-160: it comes to its end, by a failed
\* handshake, the client leaving or an I/O error
Return(i) ==
    /\ workers[i].pc = "serving"
    /\ manager' = remove_connection(manager, workers[i].sid)
    /\ workers' = [workers EXCEPT ![i].pc = "returned"]
    /\ UNCHANGED <<session, next_uuid, shutdown_tx, shutdownFrame>>

\* what shutdown_rx.recv() has to deliver to the task
Pending(w) == shutdown_tx - w.subscribed_at

\* Server::run, lines 77-79: recv() completes first and the
\* handle_connection future is dropped where it stands
Stop(i) ==
    /\ workers[i].pc \in {"spawned", "serving"}
    /\ Pending(workers[i]) > 0
    /\ workers' = [workers EXCEPT ![i].pc = "stopped"]
    /\ UNCHANGED <<manager, session, next_uuid, shutdown_tx, shutdownFrame>>

\* Server::shutdown
Shutdown ==
    /\ shutdown_tx < MaxShutdowns
    /\ shutdown_tx' = shutdown_tx + 1
    /\ UNCHANGED <<manager, session, next_uuid, workers, shutdownFrame>>

NextShutdown ==
    \/ Spawn
    \/ \E i \in DOMAIN workers : Serve(i)
    \/ \E i \in DOMAIN workers : Return(i)
    \/ \E i \in DOMAIN workers : Stop(i)
    \/ Shutdown

SpecShutdown == InitShutdown /\ [][NextShutdown]_vars

\* the runtime polls every spawned task that can make a step: one whose
\* recv() is ready completes its select!, and create_connection does not
\* wait for anything.  When handle_connection returns is up to the client.
SpecShutdownFair ==
    /\ SpecShutdown
    /\ \A i \in 1..MaxWorkers : WF_vars(i \in DOMAIN workers /\ Stop(i))
    /\ \A i \in 1..MaxWorkers : WF_vars(i \in DOMAIN workers /\ Serve(i))

\* the task has left its select!
Exited(w) == w.pc \in {"returned", "stopped"}

\* C27: the session of a task that the stop signal ended is not in the
\* registry any more, and active_count counts the tasks still serving only.
C27_StoppedTaskDeregistered ==
    /\ \A i \in DOMAIN workers :
          workers[i].pc = "stopped" => workers[i].sid \notin manager.connections
    /\ manager.active_count =
          Cardinality({i \in DOMAIN workers : workers[i].pc = "serving"})

\* C28: once shutdown has been called, every connection task, spawned before
\* the call or after it, eventually leaves its select!, whatever its client
\* does.
C28_EveryTaskStops ==
    \A i \in 1..MaxWorkers :
        (shutdown_tx > 0 /\ i \in DOMAIN workers) ~>
            (i \in DOMAIN workers /\ Exited(workers[i]))

-----------------------------------------------------------------------------
(* Further claims on SpecKeys *)

\* the info string a key generation was derived with
InfoOf(keys) == keys.master_secret.hkdf[3]

\* the info strings of the generations that rotations have installed
RotationInfos == {InfoOf(history[i]) : i \in 2..Len(history)}

\* C31: a rotation derives the new generation with info
\* "LLP-v1-rotation-<n>", n = floor(seconds since last_rotation / 1800) + 1,
\* and n differs from the index of every earlier rotation of the KeyManager.
C31_RotationIndex ==
    [][Rotates =>
          LET n == ((now - km.last_rotation) \div 1800) + 1
          IN /\ n >= 1
             /\ InfoOf(km'.current_keys) = Format("LLP-v1-rotation-", n)
             /\ InfoOf(km'.current_keys) \notin RotationInfos]_vars

\* C32: encrypt of a plaintext of length L returns a ciphertext of length
\* L + 16, and L is among the plaintext lengths that decrypt tries for that
\* ciphertext; decrypt refuses a ciphertext of 32 bytes or less with a Crypto
\* error.
C32_HseLengths ==
    [][/\ Returns("encrypt") =>
             /\ key_ret'.ok
             /\ key_ret'.value.len = Len(cipher'.plaintext) + 16
             /\ Len(cipher'.plaintext) \in HseCandidates(key_ret'.value.len)
       /\ (Returns("decrypt") /\ cipher.ciphertext.len <= 32) =>
             key_ret' = Err("Crypto", <<"HSE ciphertext too short">>)]_vars

-----------------------------------------------------------------------------
(* Further claims on SpecServer *)

\* this step writes one packet to the client
Wrote == Len(tcp'.out) = Len(tcp.out) + 1

\* C33: a turn of the data loop that decodes the unit it read, whatever its
\* type, adds one to packets_received, the size of the packet (24 plus the
\* length of its payload) to bytes_received and sets last_activity to the
\* time of the turn; a reply that is written adds one to packets_sent and 24
\* to bytes_sent; a reply whose write fails adds nothing to them and the
\* task returns the I/O error.
C33_Accounting ==
    [][LoopDecoded =>
          LET before == session[ctask.sid]
              after == session'[ctask.sid]
              p == evlog'[1].parsed.value
          IN /\ after.stats.packets_received = before.stats.packets_received + 1
             /\ after.stats.bytes_received =
                    before.stats.bytes_received + 24 + Len(p.payload)
             /\ after.last_activity = now
             /\ after.stats.errors = before.stats.errors
             /\ IF Wrote
                THEN /\ after.stats.packets_sent = before.stats.packets_sent + 1
                     /\ after.stats.bytes_sent = before.stats.bytes_sent + 24
                ELSE /\ after.stats.packets_sent = before.stats.packets_sent
                     /\ after.stats.bytes_sent = before.stats.bytes_sent
             /\ (p.header.packet_type \in {"Data", "KeepAlive"} /\ ~Wrote) =>
                    /\ ctask'.pc = "done"
                    /\ ctask'.result = Some(Io("BrokenPipe"))]_vars

\* two packets were counted some time after the session was built, the
\* reply to the first was written and counted, the reply to the second was
\* not and the task has returned the error
C33_Witness ==
    /\ ctask.pc = "done"
    /\ ctask.result = Some(Io("BrokenPipe"))
    /\ TaskSessionIs("Active")
    /\ session[ctask.sid].stats.packets_received = 2
    /\ session[ctask.sid].stats.bytes_received = 48
    /\ session[ctask.sid].stats.packets_sent = 1
    /\ session[ctask.sid].stats.bytes_sent = 24
    /\ session[ctask.sid].last_activity > 0

\* C34: the session_id of the ServerHello the task writes is the id under
\* which its connection is registered.
C34_HelloNamesSession ==
    [][(Wrote /\ tcp'.out[Len(tcp'.out)].header.packet_type = "HandshakeResponse") =>
          LET msg == from_bytes(tcp'.out[Len(tcp'.out)].payload)
          IN /\ msg.ok
             /\ msg.value.session_id = ctask.sid
             /\ msg.value.session_id \in manager.connections]_vars

-----------------------------------------------------------------------------
(* Further claims on SpecTasks *)

\* C35: when a connection task that created a connection has returned from
\* its remove_connection, its session id is not a key of the map, and
\* active_count has been decremented at most once for any session, whoever
\* removed it.
C35_OwnerLeavesNoEntry ==
    /\ \A i \in Tasks :
          task[i].pc = "closed" => task[i].sid \notin manager.connections
    /\ \A id \in Ids : removals[id].decs <= 1

\* a task has returned after the sweep and the task both called
\* remove_connection on its session, with one decrement between them
C35_Witness ==
    \E i \in Tasks :
        /\ task[i].pc = "closed"
        /\ removals[task[i].sid].by = {"task", "sweep"}
        /\ removals[task[i].sid].decs = 1

\* C36: a session of the server is Handshaking or Active and nothing else;
\* its state changes only from Handshaking to Active, in the step of the
\* task that follows the written ServerHello, and not when a Disconnect
\* packet is read, when the task returns or when the entry is removed.
C36_TwoStatesOnly ==
    [][/\ \A id \in DOMAIN session' : session'[id].state \in {"Handshaking", "Active"}
       /\ \A id \in DOMAIN session :
             session'[id].state # session[id].state =>
                /\ id = ctask.sid
                /\ ctask.pc = "activate"
                /\ session[id].state = "Handshaking"
                /\ session'[id].state = "Active"
                /\ WroteServerHello]_vars

\* the task has returned on a Disconnect packet with its entry removed, and
\* the session is still Active
C36_Witness ==
    /\ ctask.pc = "done"
    /\ ctask.result = Some(Ok(<<>>))
    /\ Len(evlog) = 1 /\ evlog[1].phase = "loop" /\ evlog[1].parsed.ok
    /\ evlog[1].parsed.value.header.packet_type = "Disconnect"
    /\ ctask.sid \notin manager.connections
    /\ TaskSessionIs("Active")

\* this step is the sweep taking id out of the map
SweepTakes(id) ==
    /\ sweep.pc = "remove"
    /\ sweep.to_remove # <<>>
    /\ Head(sweep.to_remove) = id
    /\ id \in manager.connections
    /\ id \notin manager'.connections
    /\ sweep'.pc = "dec"

\* C37: cleanup_stale removes a connection only if its session is stale at
\* the moment of the removal: an update_activity by the owning task between
\* the sweep's visit of the session and its removal keeps the session.
C37_RemovedOnlyIfStale ==
    [][\A id \in Ids :
          SweepTakes(id) => should_timeout(session[id], now, sweep.timeout)]_vars

-----------------------------------------------------------------------------
(* SpecAccepts: the connection tasks of Server::run, each create_connection
   and each cleanup_stale running undisturbed, and the clock.  A task that
   is serving holds its client's socket, in the handshake or in the data
   loop, until it returns. *)

NextAccepts ==
    \/ Spawn
    \/ \E i \in DOMAIN workers : Serve(i)
    \/ \E i \in DOMAIN workers : Return(i)
    \/ \E timeout \in 0..MaxTimeout : Sweep(timeout)
    \/ Tick

SpecAccepts == InitShutdown /\ [][NextAccepts]_vars

\* the tasks that hold an open client socket
Serving == {i \in DOMAIN workers : workers[i].pc = "serving"}

\* C38: the connection tasks that hold an open client socket, in the
\* handshake or in the data loop, are never more than max_connections.
C38_SocketsWithinCapacity == Cardinality(Serving) <= manager.max_connections

----------------------------------------------------------------------------
(* SpecCallers: one KeyManager shared by several callers.  Every lock of
   KeyManager is acquired and released inside one statement, so a call is a
   sequence of steps, one per lock acquisition, and the steps of different
   callers interleave.  callers[c] holds where caller c is and the locals of
   its call: rotated is rotated_keys of rotate_keys, current the value read
   at line 129.  began and overlapped record, for the claims, the keys the
   KeyManager held when the call began and whether another caller's
   rotate_keys ran during the call. *)

callersFrame == <<manager, session, next_uuid, trace, taskVars, sessVars, hsVars,
                  connVars, pktVars, srvVars, stopVars>>

RotatePcs == {"count", "read", "write_previous", "write_current", "write_time"}
DecryptPcs == {"try_current", "try_previous"}

Rotating == {c \in Callers : callers[c].pc \in RotatePcs}

\* caller c moves to the record next; a step of rotate_keys marks every other
\* call in flight as overlapped
Step(c, next, rotates) ==
    callers' = [d \in Callers |->
                   IF d = c THEN next
                   ELSE IF rotates /\ callers[d].pc # "idle"
                        THEN [callers[d] EXCEPT !.overlapped = TRUE]
                        ELSE callers[d]]

\* caller c begins a rotation: it overlaps the rotations in flight, and a
\* rotation that begins alone ends the overlap recorded for finished calls
Begin(c, next) ==
    callers' = [d \in Callers |->
                   IF d = c THEN [next EXCEPT !.overlapped = Rotating \ {c} # {}]
                   ELSE IF callers[d].pc # "idle"
                        THEN [callers[d] EXCEPT !.overlapped = TRUE]
                        ELSE [callers[d] EXCEPT !.overlapped =
                                 @ /\ Rotating \ {c} # {}]]

\* check_rotation, lines 67-79, up to the call of rotate_keys
CheckRotationCall(c) ==
    /\ km # <<>>
    /\ callers[c].pc = "idle"
    /\ Len(history) + Cardinality(Rotating) <= MaxRotations
    /\ IF km.auto_rotation /\ RotationDue(now - km.last_rotation)
       THEN /\ Begin(c, [CallerIdle EXCEPT !.pc = "count", !.fn = "check_rotation"])
            /\ UNCHANGED <<key_call, key_ret>>
       ELSE /\ Step(c, CallerIdle, FALSE)
            /\ Called("check_rotation", <<>>, Ok(FALSE), Len(history))
    /\ UNCHANGED <<now, callersFrame, km, history, cipher>>

\* rotate_keys, lines 85-126: get_rotation_count reads last_rotation and the
\* new keys are derived
RotCount(c) ==
    /\ km # <<>>
    /\ \/ callers[c].pc = "count"
          /\ Step(c, [callers[c] EXCEPT !.pc = "read",
                         !.rotated = {rotate_keys(km, now).current_keys}], TRUE)
       \/ callers[c].pc = "idle"
          /\ Len(history) + Cardinality(Rotating) <= MaxRotations
          /\ Begin(c, [CallerIdle EXCEPT !.pc = "read", !.fn = "rotate_keys",
                          !.rotated = {rotate_keys(km, now).current_keys}])
    /\ UNCHANGED <<now, callersFrame, keyVars>>

\* rotate_keys, line 129
RotRead(c) ==
    /\ callers[c].pc = "read"
    /\ Step(c, [callers[c] EXCEPT !.pc = "write_previous",
                   !.current = {km.current_keys}], TRUE)
    /\ UNCHANGED <<now, callersFrame, keyVars>>

\* rotate_keys, line 130
RotWritePrevious(c) ==
    /\ callers[c].pc = "write_previous"
    /\ km' = [km EXCEPT !.previous_keys =
                 PreviousAfterRotation(Unwrap(callers[c].current))]
    /\ Step(c, [callers[c] EXCEPT !.pc = "write_current"], TRUE)
    /\ UNCHANGED <<now, callersFrame, history, cipher, key_call, key_ret>>

\* rotate_keys, line 133
RotWriteCurrent(c) ==
    /\ callers[c].pc = "write_current"
    /\ km' = [km EXCEPT !.current_keys = Unwrap(callers[c].rotated)]
    /\ history' = Append(history, km'.current_keys)
    /\ Step(c, [callers[c] EXCEPT !.pc = "write_time"], TRUE)
    /\ UNCHANGED <<now, callersFrame, cipher, key_call, key_ret>>

\* rotate_keys, lines 136-138, and the return of check_rotation at line 76
RotWriteTime(c) ==
    /\ callers[c].pc = "write_time"
    /\ km' = [km EXCEPT !.last_rotation = now]
    /\ Step(c, [callers[c] EXCEPT !.pc = "idle"], TRUE)
    /\ Called(callers[c].fn, <<>>,
              IF callers[c].fn = "check_rotation" THEN Ok(TRUE) ELSE Ok(<<>>),
              Len(history))
    /\ UNCHANGED <<now, callersFrame, history, cipher>>

\* decrypt_with_fallback is called on the ciphertext
DecBegin(c) ==
    /\ km # <<>>
    /\ cipher # <<>>
    /\ callers[c].pc = "idle"
    /\ Step(c, [CallerIdle EXCEPT !.pc = "try_current",
                   !.fn = "decrypt_with_fallback",
                   !.began = {[current |-> km.current_keys,
                               previous |-> km.previous_keys]},
                   !.overlapped = Rotating # {}], FALSE)
    /\ UNCHANGED <<now, callersFrame, keyVars>>

\* decrypt_with_fallback, lines 153-156
DecCurrent(c) ==
    /\ callers[c].pc = "try_current"
    /\ LET r == HSE_decrypt(get_hse_encryptor(km), cipher.ciphertext, cipher.nonce)
       IN IF r.ok
          THEN /\ Step(c, [callers[c] EXCEPT !.pc = "idle"], FALSE)
               /\ Called("decrypt_with_fallback", <<cipher.nonce>>, r, Len(history))
          ELSE /\ Step(c, [callers[c] EXCEPT !.pc = "try_previous"], FALSE)
               /\ UNCHANGED <<key_call, key_ret>>
    /\ UNCHANGED <<now, callersFrame, km, history, cipher>>

\* decrypt_with_fallback, lines 159-168
DecPrevious(c) ==
    /\ callers[c].pc = "try_previous"
    /\ LET r == IF km.previous_keys = None
                THEN Err("Crypto", <<"no previous keys">>)
                ELSE HSE_decrypt(HSE_new(Unwrap(km.previous_keys).chacha_key,
                                         Unwrap(km.previous_keys).aes_key),
                                 cipher.ciphertext, cipher.nonce)
       IN Called("decrypt_with_fallback", <<cipher.nonce>>,
                 IF r.ok THEN r
                 ELSE Err("Crypto",
                          <<"Decryption failed with both current and previous keys">>),
                 Len(history))
    /\ Step(c, [callers[c] EXCEPT !.pc = "idle"], FALSE)
    /\ UNCHANGED <<now, callersFrame, km, history, cipher>>

\* the clock reaches a rotation interval after the last rotation
Elapse ==
    /\ km # <<>>
    /\ now < km.last_rotation + KEY_ROTATION_INTERVAL
    /\ km.last_rotation + KEY_ROTATION_INTERVAL \in Instants
    /\ now' = km.last_rotation + KEY_ROTATION_INTERVAL
    /\ UNCHANGED <<keysFrame, keyVars>>

\* the packet encrypted in SpecCallers
SomePlaintext == CHOOSE plaintext \in Plaintexts : TRUE
SomeNonce == CHOOSE nonce \in Nonces : TRUE

NextCallers ==
    \/ KeyManagerNew(TRUE)
    \/ Elapse
    \/ Encrypt(FALSE, SomePlaintext, SomeNonce)
    \/ \E c \in Callers : CheckRotationCall(c)
    \/ \E c \in Callers : RotCount(c)
    \/ \E c \in Callers : RotRead(c)
    \/ \E c \in Callers : RotWritePrevious(c)
    \/ \E c \in Callers : RotWriteCurrent(c)
    \/ \E c \in Callers : RotWriteTime(c)
    \/ \E c \in Callers : DecBegin(c)
    \/ \E c \in Callers : DecCurrent(c)
    \/ \E c \in Callers : DecPrevious(c)

SpecCallers == InitKeys /\ [][NextCallers]_vars

\* the keys the KeyManager held, as current or as previous, when the call of
\* caller c began
HeldAtBegin(c) == UNION {{b.current} \cup b.previous : b \in callers[c].began}

\* caller c returns from decrypt_with_fallback
DecReturns(c) == callers[c].pc \in DecryptPcs /\ callers'[c].pc = "idle"

\* C39: a decrypt_with_fallback call that overlaps a rotate_keys of another
\* caller returns the plaintext of every ciphertext made under the keys
\* that were current or previous when the call began.
C39_OverlappedDecryptSucceeds ==
    [][\A c \in Callers :
          (/\ DecReturns(c)
           /\ callers[c].overlapped
           /\ cipher.keys \in HeldAtBegin(c))
          => key_ret' = Ok(cipher.plaintext)]_vars

\* the callers whose last call was a rotation that overlapped another one
OverlappedRotations ==
    {c \in Callers : /\ callers[c].pc = "idle"
                     /\ callers[c].rotated # {}
                     /\ callers[c].overlapped}

\* C40: once two overlapping rotations have both returned, previous_keys
\* holds the keys that were current just before current_keys was last
\* written, and current_keys differs from them.
C40_GenerationAfterOverlap ==
    (Rotating = {} /\ Cardinality(OverlappedRotations) >= 2)
    => /\ km.previous_keys = Some(history[Len(history) - 1])
       /\ km.current_keys \notin km.previous_keys

====
